---- MODULE Spec2Model ----
(***************************************************************************)
(* Model of the reliability core of the BarBuddy server (src/server.js and *)
(* the other revisions of the same file kept in src/unnamed/part_000):     *)
(*   - the background job queue (enqueueJob / processQueue),                *)
(*   - the mock-bar assembler (generateMockBar / generateAIQuestions),      *)
(*   - the model invoker (callClaude) and the JSON-guaranteed invoker      *)
(*     (callClaudeJSON, extractJSON).                                       *)
(* Node.js runs the handlers on one thread: an action of this module is    *)
(* the code that runs between two suspension points (await).               *)
(***************************************************************************)
EXTENDS Integers, Sequences, FiniteSets, TLC

\* ------------------------------------------------------------------------
\* Bounds of the model
\* ------------------------------------------------------------------------
MaxJobs == 4
MaxReal == 3
MaxPre == 3
MaxCount == 4
MaxAI == 3
MaxRetries == 3
MaxTopics == 3
MaxTriggers == 3
MaxPieces == 3
MaxDocs == 3

\* ------------------------------------------------------------------------
\* State
\* ------------------------------------------------------------------------
VARIABLES
  JOB_MAP,      \* jobId -> { status, result, error }      (server.js:103)
  JOB_QUEUE,    \* sequence of { jobId, fn }               (server.js:104)
  JOB_RUNNING,  \* consumer guard                          (server.js:105)
  qpc,          \* where processQueue is suspended: "idle" | "awaitFn" | "sleep"
  curJob,       \* the { jobId, fn } the consumer took last (locals of processQueue)
  timers,       \* job ids with an armed expiry timer      (server.js:1319)
  nextId,       \* number of enqueueJob calls so far, plus one
  enqLog,       \* history: job ids in the order enqueueJob was called
  startLog,     \* history: job ids in the order their work unit was started
  finishLog,    \* history: job ids in the order they were recorded done/failed
  delayLog,     \* history: per started job, ms of sleep(3000) since the last finish
  lastWait,     \* history: the job ids that were queued when the last job finished
  lastRead,     \* what GET /api/job/:jobId answered last
  revision,     \* which revision of the server file runs: "server.js" | "part_000"
  mpc,          \* where generateMockBar is: "idle" | "awaitAI" | "done" | "threw"
  mb,           \* arguments and locals of the generateMockBar call
  mresult,      \* the object generateMockBar returned
  aiCalls,      \* number of provider requests made for the mock bar
  ipc,          \* where the invoker is suspended, or how it ended
  cc,           \* locals and history of the current callClaude invocation
  cj,           \* arguments, locals and history of the callClaudeJSON call
  lastResp,     \* the provider's latest response
  ires,         \* what the invoked function returned or threw
  GEN,          \* generation state { running, total, done, ... } (server.js:96)
  CONTENT,      \* content cache: topic -> entry
  persisted,    \* the content cache as saveContent() wrote it last
  gpc,          \* where runGenQueue is suspended: "idle" | "generating" | "sleeping"
  genQueue,     \* the queue of the runGenQueue pass (its argument)
  genIdx,       \* position of the pass in its queue
  hasSyllabus,  \* KB.syllabus is set
  refSubjects,  \* subjects that have reference material in KB.references
  activePasses, \* history: runGenQueue passes entered and not yet left
  triggers,     \* history: number of trigger calls so far
  ignored,      \* history: number of trigger calls that returned at once
  lastDiscard,  \* history: the last trigger that returned because a run was active
  glog,         \* history of the pass: broadcasts and steps, in order
  clients,      \* GEN.clients, in insertion order: { id, mode } per subscriber
  inbox,        \* per subscriber id, the last message delivered to it while subscribed
  xin,          \* the argument of the extractJSON call
  xpc,          \* where the extractJSON call is: "idle" | "ready" | "done"
  xres,         \* how the extractJSON call ended
  pin,          \* knowledge base and filters of the pool building
  ppc,          \* where the pool building is: "idle" | "ready" | "done"
  pout          \* the pools built

qvars == <<JOB_MAP, JOB_QUEUE, JOB_RUNNING, qpc, curJob, timers, nextId,
           enqLog, startLog, finishLog, delayLog, lastWait, lastRead>>

mvars == <<revision, mpc, mb, mresult, aiCalls>>

ivars == <<ipc, cc, cj, lastResp, ires>>

gvars == <<GEN, CONTENT, persisted, gpc, genQueue, genIdx, hasSyllabus, refSubjects,
           activePasses, triggers, ignored, lastDiscard, glog, clients, inbox>>

xvars == <<xin, xpc, xres>>

pvars == <<pin, ppc, pout>>

vars == <<JOB_MAP, JOB_QUEUE, JOB_RUNNING, qpc, curJob, timers, nextId,
          enqLog, startLog, finishLog, delayLog, lastWait, lastRead, revision, mpc, mb, mresult, aiCalls,
          ipc, cc, cj, lastResp, ires,
          GEN, CONTENT, persisted, gpc, genQueue, genIdx, hasSyllabus, refSubjects,
          activePasses, triggers, ignored, lastDiscard, glog, clients, inbox,
          xin, xpc, xres, pin, ppc, pout>>

\* null / undefined of the program
Null == "null"

\* ------------------------------------------------------------------------
\* Job queue (src/server.js:1299-1323, same code at part_000:2550-2574)
\* ------------------------------------------------------------------------

\* A work unit is an opaque async function: it either resolves or rejects.
WorkUnits == {"resolves", "rejects"}

\* `job_${Date.now()}_${random}`: the model takes the id to be fresh, the
\* k-th call of enqueueJob gets id k.
NewJobId == nextId

\* the record enqueueJob stores in JOB_MAP
PendingJob == [status |-> "pending", result |-> Null, error |-> Null]

MapSet(map, k, v) == [x \in (DOMAIN map) \cup {k} |-> IF x = k THEN v ELSE map[x]]

MapDelete(map, k) == [x \in (DOMAIN map) \ {k} |-> map[x]]

\* value of the consumer's locals { jobId, fn } before the first job
NoJob == [jobId |-> 0, fn |-> "none"]

\* JOB_QUEUE.pop(): the plausible slip for shift()
QueuePop(q) == [item |-> q[Len(q)], rest |-> SubSeq(q, 1, Len(q) - 1)]

\* JOB_QUEUE.shift(): the removed head and what is left
QueueShift(q) == [item |-> Head(q), rest |-> Tail(q)]

\* an enqueueJob whose processQueue() call never gets past its first line
ProcessQueueReturnsEarlyAlways(running, q) == TRUE

\* a guard that forgets JOB_RUNNING
ProcessQueueReturnsEarlyNoGuard(running, q) == Len(q) = 0

\* first line of processQueue: if (JOB_RUNNING || !JOB_QUEUE.length) return;
ProcessQueueReturnsEarly(running, q) == running \/ Len(q) = 0

\* a consumer that leaves its loop without clearing the guard
RunningAfterLoopStuck == TRUE

\* JOB_RUNNING = false;  after the while loop
RunningAfterLoop == FALSE

\* The synchronous part of the consumer loop from the `while` test to the
\* next suspension point: records that are gone are skipped (continue); the
\* first job that still has a record is marked processing and its work unit
\* is called; an empty queue ends the loop and clears JOB_RUNNING.
RECURSIVE LoopUntilAwait(_, _)
LoopUntilAwait(map, q) ==
  IF Len(q) = 0
  THEN [map |-> map, queue |-> q, running |-> RunningAfterLoop, pc |-> "idle",
        cur |-> NoJob, started |-> <<>>]
  ELSE LET sh == QueueShift(q)
       IN IF sh.item.jobId \notin DOMAIN map
          THEN LoopUntilAwait(map, sh.rest)
          ELSE [map |-> [map EXCEPT ![sh.item.jobId].status = "processing"],
                queue |-> sh.rest, running |-> TRUE, pc |-> "awaitFn",
                cur |-> sh.item, started |-> <<sh.item.jobId>>]

\* enqueueJob(fn), with the processQueue() call it makes
enqueueJob(fn) ==
  /\ nextId <= MaxJobs
  /\ LET jobId == NewJobId
         map1  == MapSet(JOB_MAP, jobId, PendingJob)
         q1    == Append(JOB_QUEUE, [jobId |-> jobId, fn |-> fn])
     IN /\ nextId' = nextId + 1
        /\ enqLog' = Append(enqLog, jobId)
        /\ IF ProcessQueueReturnsEarly(JOB_RUNNING, q1)
           THEN /\ JOB_MAP' = map1
                /\ JOB_QUEUE' = q1
                /\ UNCHANGED <<JOB_RUNNING, qpc, curJob, startLog, delayLog>>
           ELSE LET s == LoopUntilAwait(map1, q1)
                IN /\ JOB_MAP' = s.map
                   /\ JOB_QUEUE' = s.queue
                   /\ JOB_RUNNING' = s.running
                   /\ qpc' = s.pc
                   /\ curJob' = s.cur
                   /\ startLog' = startLog \o s.started
                   /\ delayLog' = delayLog \o [i \in 1..Len(s.started) |-> 0]
  /\ UNCHANGED <<timers, finishLog, lastWait, lastRead>>
  /\ UNCHANGED <<mvars, ivars, gvars, xvars, pvars>>

\* a catch clause that also stores a result
SettledJobResultOnFailure(job, fn, jobId) ==
  IF fn = "resolves"
  THEN [job EXCEPT !.result = <<"result", jobId>>, !.status = "done"]
  ELSE [job EXCEPT !.result = <<"result", jobId>>, !.error = <<"message", jobId>>,
                   !.status = "failed"]

\* the record after `job.result = await fn(); job.status = 'done'` or after
\* the catch clause
SettledJob(job, fn, jobId) ==
  IF fn = "resolves"
  THEN [job EXCEPT !.result = <<"result", jobId>>, !.status = "done"]
  ELSE [job EXCEPT !.error = <<"message", jobId>>, !.status = "failed"]

\* a consumer whose `await fn()` is not inside a try: the rejection leaves
\* processQueue
PropagatesUncaught(fn) == fn = "rejects"

\* try { job.result = await fn(); ... } catch (e) { ... }: nothing leaves
PropagatesOutOfConsumer(fn) == FALSE

\* a consumer that never sleeps between jobs
SleepsBeforeNextNever(q) == FALSE

\* if (JOB_QUEUE.length) await sleep(3000);
SleepsBeforeNext(q) == Len(q) > 0

\* processQueue resumes after `await fn()`: records the outcome, arms the
\* expiry timer and either sleeps (more jobs) or leaves the loop.
workUnitSettles ==
  /\ qpc = "awaitFn"
  /\ IF PropagatesOutOfConsumer(curJob.fn)
     THEN /\ qpc' = "idle"
          /\ UNCHANGED <<JOB_MAP, finishLog, lastWait, timers, JOB_RUNNING>>
     ELSE /\ LET jobId == curJob.jobId
             IN /\ JOB_MAP' = IF jobId \in DOMAIN JOB_MAP
                              THEN [JOB_MAP EXCEPT ![jobId] = SettledJob(@, curJob.fn, jobId)]
                              ELSE JOB_MAP
                /\ finishLog' = Append(finishLog, jobId)
                /\ lastWait' = {JOB_QUEUE[i].jobId : i \in 1..Len(JOB_QUEUE)}
                /\ timers' = timers \cup {jobId}
          /\ IF SleepsBeforeNext(JOB_QUEUE)
             THEN /\ qpc' = "sleep"
                  /\ UNCHANGED JOB_RUNNING
             ELSE /\ qpc' = "idle"
                  /\ JOB_RUNNING' = RunningAfterLoop
  /\ UNCHANGED <<JOB_QUEUE, curJob, nextId, enqLog, startLog, delayLog, lastRead>>
  /\ UNCHANGED <<mvars, ivars, gvars, xvars, pvars>>

\* processQueue resumes after `await sleep(3000)`
interJobSleepEnds ==
  /\ qpc = "sleep"
  /\ LET s == LoopUntilAwait(JOB_MAP, JOB_QUEUE)
     IN /\ JOB_MAP' = s.map
        /\ JOB_QUEUE' = s.queue
        /\ JOB_RUNNING' = s.running
        /\ qpc' = s.pc
        /\ curJob' = IF s.pc = "idle" THEN curJob ELSE s.cur
        /\ startLog' = startLog \o s.started
        /\ delayLog' = delayLog \o [i \in 1..Len(s.started) |-> 3000]
  /\ UNCHANGED <<timers, nextId, enqLog, finishLog, lastWait, lastRead>>
  /\ UNCHANGED <<mvars, ivars, gvars, xvars, pvars>>

\* the callback of setTimeout(() => JOB_MAP.delete(jobId), 30 min)
\* a sweep that may delete any record, armed timer or not
ExpiringJobsAnyRecord == DOMAIN JOB_MAP

\* the jobs whose setTimeout(..., 30 * 60 * 1000) of processQueue is armed
\* and has not fired
ExpiringJobs == timers

\* the delay of that timer, ms
JOB_EXPIRY_MS == 30 * 60 * 1000

expireJob ==
  \E jobId \in ExpiringJobs :
    /\ timers' = timers \ {jobId}
    /\ JOB_MAP' = MapDelete(JOB_MAP, jobId)
    /\ UNCHANGED <<JOB_QUEUE, JOB_RUNNING, qpc, curJob, nextId, enqLog,
                   startLog, finishLog, delayLog, lastWait, lastRead>>
    /\ UNCHANGED <<mvars, ivars, gvars, xvars, pvars>>

\* what the status route answers for a record, or for none
JobNotFound == [code |-> 404, status |-> "none", result |-> Null, error |-> Null]

JobStatus(job) ==
  [code |-> 200, status |-> job.status, result |-> job.result, error |-> job.error]

\* GET /api/job/:jobId
getJobStatus(jobId) ==
  /\ lastRead' = IF jobId \in DOMAIN JOB_MAP THEN JobStatus(JOB_MAP[jobId]) ELSE JobNotFound
  /\ UNCHANGED <<JOB_MAP, JOB_QUEUE, JOB_RUNNING, qpc, curJob, timers, nextId, enqLog,
                 startLog, finishLog, delayLog, lastWait>>
  /\ UNCHANGED <<mvars, ivars, gvars, xvars, pvars>>

InitQueue ==
  /\ JOB_MAP = <<>>
  /\ JOB_QUEUE = <<>>
  /\ JOB_RUNNING = FALSE
  /\ qpc = "idle"
  /\ curJob = NoJob
  /\ timers = {}
  /\ nextId = 1
  /\ enqLog = <<>>
  /\ startLog = <<>>
  /\ finishLog = <<>>
  /\ delayLog = <<>>
  /\ lastWait = {}
  /\ lastRead = JobNotFound

\* ------------------------------------------------------------------------
\* Mock-bar assembler (src/server.js:785-967, part_000:1882-2065)
\* ------------------------------------------------------------------------
Revisions == {"server.js", "part_000"}

Min(a, b) == IF a < b THEN a ELSE b

Max(a, b) == IF a > b THEN a ELSE b

\* values a flag of the request body can take
FlagValues == {"true", "false", "undefined"}

\* includePreGen as the route passes it: includePreGen ?? null
IncludePreGenValues == {"true", "false", "null"}

Difficulties == {"balanced", "situational", "conceptual"}

\* const usePastBar = sources.pastBar !== false;
UsePastBar(sources) == sources.pastBar # "false"

\* server.js: includePreGen !== null ? includePreGen : sources.preGen !== false
\* part_000:  includePreGen === true && sources.preGen === true
UsePreGen(rev, sources, includePreGen) ==
  IF rev = "server.js"
  THEN IF includePreGen # "null" THEN includePreGen = "true"
       ELSE sources.preGen # "false"
  ELSE includePreGen = "true" /\ sources.preGen = "true"

\* server.js: sources.aiGenerate !== false;  part_000: sources.aiGenerate === true
UseAI(rev, sources) ==
  IF rev = "server.js" THEN sources.aiGenerate # "false"
  ELSE sources.aiGenerate = "true"

\* The k-th question of the matching past-exam documents, as pushed to
\* realPool.  origin and k identify the question (its text); they are not
\* read by the code.
RealQ(k) ==
  [origin |-> "real", k |-> k, isReal |-> TRUE, source |-> "PastBarDoc",
   type |-> "situational", number |-> 0]

\* type of the k-th cached essay question: the cache holds both types
PreGenType(k) == IF k % 2 = 1 THEN "conceptual" ELSE "situational"

\* The k-th matching essay question of the content cache, as pushed to
\* preGenPool.
PreGenQ(k) ==
  [origin |-> "pregen", k |-> k, isReal |-> FALSE, source |-> "Pre-generated",
   type |-> PreGenType(k), number |-> 0]

\* What the provider may put in isReal and source of a generated question.
AIShapes ==
  { [isReal |-> FALSE, source |-> "AI Generated"],
    [isReal |-> TRUE,  source |-> "AI Generated"],
    [isReal |-> FALSE, source |-> "Pre-generated"] }

AIQ(shape, k) ==
  [origin |-> "ai", k |-> k, isReal |-> shape.isReal, source |-> shape.source,
   type |-> "situational", number |-> 0]

\* What comes back from the provider for the synthetic-generation prompt:
\* the call throws, the text is no JSON, the JSON is no array, or it is an
\* array of question objects of any length.
AIOutcomes ==
  { [kind |-> "throws", items |-> <<>>],
    [kind |-> "unparseable", items |-> <<>>],
    [kind |-> "notArray", items |-> <<>>] }
  \cup
  UNION { { [kind |-> "array", items |-> [i \in 1..n |-> AIQ(f[i], i)]] :
              f \in [1..n -> AIShapes] } : n \in 0..MaxAI }

\* arr.slice(0, n) for n >= 0
Slice0(arr, n) == SubSeq(arr, 1, Min(Max(n, 0), Len(arr)))

\* generateAIQuestions(needed, ...): threw |-> TRUE when it rejects.
\* server.js parses the text of callClaude with JSON.parse; part_000 gets
\* null from callClaudeJSON for text that is no JSON and returns [].
generateAIQuestions(rev, needed, ai) ==
  IF ai.kind = "throws" THEN [threw |-> TRUE, list |-> <<>>]
  ELSE IF ai.kind = "unparseable"
       THEN IF rev = "server.js" THEN [threw |-> TRUE, list |-> <<>>]
            ELSE [threw |-> FALSE, list |-> <<>>]
  ELSE IF ai.kind = "notArray" THEN [threw |-> FALSE, list |-> <<>>]
  ELSE [threw |-> FALSE, list |-> Slice0(ai.items, needed)]

\* every order shuffle(arr) can return (Fisher-Yates reaches all of them)
Shuffles(arr) ==
  LET n == Len(arr)
      perms == Permutations(1..n)
  IN {[i \in 1..n |-> arr[f[i]]] : f \in perms}

IsSituational(q) == q.type = "situational"

IsNotSituational(q) == q.type # "situational"

\* a difficulty preference that puts the other type behind in reverse order
ApplyDifficultyUnstable(pool, difficulty) ==
  LET Rev(q) == [i \in 1..Len(q) |-> q[Len(q) + 1 - i]]
  IN IF difficulty = "situational"
     THEN SelectSeq(pool, IsSituational) \o Rev(SelectSeq(pool, IsNotSituational))
     ELSE IF difficulty = "conceptual"
     THEN SelectSeq(pool, IsNotSituational) \o Rev(SelectSeq(pool, IsSituational))
     ELSE pool

\* "Apply difficulty preference" on the shuffled pre-generated pool
ApplyDifficulty(pool, difficulty) ==
  IF difficulty = "situational"
  THEN SelectSeq(pool, IsSituational) \o SelectSeq(pool, IsNotSituational)
  ELSE IF difficulty = "conceptual"
  THEN SelectSeq(pool, IsNotSituational) \o SelectSeq(pool, IsSituational)
  ELSE pool

\* for (const q of pool) { if (chosen.length >= count) break; chosen.push(q); }
FillFrom(chosen, pool, count) ==
  chosen \o SubSeq(pool, 1, Min(Len(pool), Max(count - Len(chosen), 0)))

\* a fill that takes the pre-generated pool before the real one
FillChosenPreGenFirst(realPool, preGenPool, count) ==
  FillFrom(FillFrom(<<>>, preGenPool, count), realPool, count)

\* STEP 3: real first, then pre-gen
FillChosen(realPool, preGenPool, count) ==
  FillFrom(FillFrom(<<>>, realPool, count), preGenPool, count)

\* the clamp message of STEP 4
ClampWarning(available) ==
  "Only " \o ToString(available) \o " question"
    \o (IF available = 1 THEN "" ELSE "s") \o " available in pool. Starting with "
    \o ToString(available) \o " question" \o (IF available = 1 THEN "" ELSE "s") \o "."

\* a numbering that starts at 0, the index of the array
NumberedFromZero(final) == [i \in 1..Len(final) |-> [final[i] EXCEPT !.number = i - 1]]

\* final.forEach((q, i) => q.number = i + 1)
Numbered(final) == [i \in 1..Len(final) |-> [final[i] EXCEPT !.number = i]]

IsRealQ(q) == q.isReal

IsPreGenQ(q) == (~q.isReal) /\ q.source = "Pre-generated"

\* a count of synthetic questions that looks at the source label only
IsAIQBySource(q) == q.source # "Pre-generated"

IsAIQ(q) == (~q.isReal) /\ q.source # "Pre-generated"

\* STEP 5 and the returned object
MockBarResult(chosen, count, warning) ==
  LET final == Numbered(Slice0(chosen, count))
  IN [questions   |-> final,
      total       |-> Len(final),
      requested   |-> count,
      warning     |-> warning,
      fromPastBar |-> Len(SelectSeq(final, IsRealQ)),
      fromPreGen  |-> Len(SelectSeq(final, IsPreGenQ)),
      aiGenerated |-> Len(SelectSeq(final, IsAIQ))]

\* a STEP 4 that also runs when the pools gave exactly the count
HasGapOrNone(gap) == gap >= 0

\* if (gap > 0) { ... }
HasGap(gap) == gap > 0

\* a call that asks the provider for the whole count
NeededOfAIWholeCount(gap, count) == count

\* generateAIQuestions(gap, subjects, KB.syllabus, KB.references): its
\* first argument
NeededOfAI(gap, count) == gap

NoResult ==
  [questions |-> <<>>, total |-> 0, requested |-> 0, warning |-> Null,
   fromPastBar |-> 0, fromPreGen |-> 0, aiGenerated |-> 0]

NoMockBar ==
  [N |-> 0, count |-> 0, usePastBar |-> FALSE, usePreGen |-> FALSE,
   useAI |-> FALSE, realPool |-> <<>>, preGenPool |-> <<>>, chosen |-> <<>>,
   gap |-> 0, warning |-> Null, aiNeeded |-> 0, aiList |-> <<>>,
   aiEnd |-> "none", difficulty |-> "balanced", shuffled |-> <<>>]

\* generateMockBar(subjects, count, options) up to its await or its return.
\* nReal and nPre are the numbers of questions of the knowledge base and of
\* the content cache that pass the subject, document and topic filters.
generateMockBarStart(count, sources, includePreGen, difficulty, nReal, nPre) ==
  /\ mpc = "idle"
  /\ LET usePastBar == UsePastBar(sources)
         usePreGen  == UsePreGen(revision, sources, includePreGen)
         useAI      == UseAI(revision, sources)
     IN \E realPool \in (IF usePastBar THEN Shuffles([k \in 1..nReal |-> RealQ(k)])
                         ELSE {<<>>}) :
        \E shuffled \in (IF usePreGen THEN Shuffles([k \in 1..nPre |-> PreGenQ(k)])
                         ELSE {<<>>}) :
          LET preGenPool == ApplyDifficulty(shuffled, difficulty)
              chosen     == FillChosen(realPool, preGenPool, count)
              gap        == count - Len(chosen)
              locals     == [N |-> count, count |-> count,
                             usePastBar |-> usePastBar, usePreGen |-> usePreGen,
                             useAI |-> useAI, realPool |-> realPool,
                             preGenPool |-> preGenPool, chosen |-> chosen,
                             gap |-> gap, warning |-> Null, aiNeeded |-> 0,
                             aiList |-> <<>>, aiEnd |-> "none",
                             difficulty |-> difficulty, shuffled |-> shuffled]
          IN IF HasGap(gap) /\ useAI
             THEN /\ mb' = [locals EXCEPT !.aiNeeded = NeededOfAI(gap, count)]
                  /\ mpc' = "awaitAI"
                  /\ aiCalls' = aiCalls + 1
                  /\ UNCHANGED mresult
             ELSE IF HasGap(gap)
             THEN LET available == Len(chosen)
                      warning   == ClampWarning(available)
                  IN /\ mb' = [locals EXCEPT !.warning = warning, !.count = available]
                     /\ mresult' = MockBarResult(chosen, available, warning)
                     /\ mpc' = "done"
                     /\ UNCHANGED aiCalls
             ELSE /\ mb' = locals
                  /\ mresult' = MockBarResult(chosen, count, Null)
                  /\ mpc' = "done"
                  /\ UNCHANGED aiCalls
  /\ UNCHANGED revision
  /\ UNCHANGED <<qvars, ivars, gvars, xvars, pvars>>

\* a STEP 4 without the try/catch: the rejection reaches the caller
AIRejectionPropagates(threw) == threw

\* try { ... await generateAIQuestions(...) ... } catch(e) { console.error(...) }:
\* a rejection of generateAIQuestions does not leave generateMockBar
AIRejectionEscapes(threw) == FALSE

\* generateMockBar resumes after `await generateAIQuestions(gap, ...)`: the
\* returned questions are appended, a rejection is caught and logged.
\* mb.aiEnd records how generateAIQuestions ended.
generateMockBarResume(ai) ==
  /\ mpc = "awaitAI"
  /\ LET r      == generateAIQuestions(revision, mb.aiNeeded, ai)
         chosen == IF r.threw THEN mb.chosen ELSE mb.chosen \o r.list
         aiEnd  == IF r.threw THEN "threw" ELSE "returned"
     IN IF AIRejectionEscapes(r.threw)
        THEN /\ mb' = [mb EXCEPT !.aiEnd = aiEnd]
             /\ mpc' = "threw"
             /\ UNCHANGED mresult
        ELSE /\ mb' = [mb EXCEPT !.chosen = chosen, !.aiList = r.list, !.aiEnd = aiEnd]
             /\ mresult' = MockBarResult(chosen, mb.count, mb.warning)
             /\ mpc' = "done"
  /\ UNCHANGED <<revision, aiCalls>>
  /\ UNCHANGED <<qvars, ivars, gvars, xvars, pvars>>

InitMock ==
  /\ mpc = "idle"
  /\ mb = NoMockBar
  /\ mresult = NoResult
  /\ aiCalls = 0

NextMock ==
  \/ /\ mpc = "idle"
     /\ \E count \in 0..MaxCount, includePreGen \in IncludePreGenValues,
           difficulty \in Difficulties, nReal \in 0..MaxReal, nPre \in 0..MaxPre,
           sources \in [pastBar : FlagValues, preGen : FlagValues, aiGenerate : FlagValues] :
             generateMockBarStart(count, sources, includePreGen, difficulty, nReal, nPre)
  \/ /\ mpc = "awaitAI"
     /\ \E ai \in AIOutcomes : generateMockBarResume(ai)

\* ------------------------------------------------------------------------
\* Pools of generateMockBar: STEP 1 and STEP 2 before the shuffle
\* (src/server.js:846-897, same code at part_000:1944-1995)
\* The knowledge base holds some of the past-exam documents 1..MaxDocs; the
\* content cache is a fixture of two subjects.
\* ------------------------------------------------------------------------

\* pb.subject of document k; the third document is of a subject that has no
\* cached content
DocSubject(k) == IF k % 3 = 1 THEN "civil" ELSE IF k % 3 = 2 THEN "labor" ELSE "criminal"

\* pb.questions.length of document k
DocQuestions(k) == (k % 2) + 1

\* CONTENT: subjects in key order, each with its topics and the number of
\* essay questions of each topic
CachedContent ==
  << [subj |-> "civil", topics |-> << [name |-> "t1", nq |-> 1], [name |-> "t2", nq |-> 1] >>],
     [subj |-> "labor", topics |-> << [name |-> "t3", nq |-> 2] >>] >>

\* a list argument: given |-> FALSE when the request has none (undefined)
NoList == [given |-> FALSE, list |-> <<>>]

ListOf(l) == [given |-> TRUE, list |-> l]

\* Array.prototype.includes
Includes(l, x) == \E i \in 1..Len(l) : l[i] = x

SubjectFilters ==
  { NoList, ListOf(<<>>), ListOf(<<"all">>), ListOf(<<"civil">>),
    ListOf(<<"labor", "all">>), ListOf(<<"civil", "labor">>), ListOf(<<"ethics">>) }

IdFilters ==
  { NoList, ListOf(<<>>), ListOf(<<1>>), ListOf(<<2, 3>>), ListOf(<<0>>) }

TopicFilters == { <<>>, <<"t1">>, <<"t3", "t1">> }

\* !subjects || subjects.includes('all') || subjects.includes(pb.subject)
SubjMatch(subjects, subject) ==
  \/ ~subjects.given
  \/ Includes(subjects.list, "all")
  \/ Includes(subjects.list, subject)

\* !pastBarIds?.length || pastBarIds.includes(pb.id)
IdMatch(pastBarIds, id) ==
  \/ ~pastBarIds.given
  \/ Len(pastBarIds.list) = 0
  \/ Includes(pastBarIds.list, id)

\* the questions of document k, as <<document, index>>
QuestionsOfDoc(k) == [i \in 1..DocQuestions(k) |-> <<k, i>>]

\* KB.pastBar.forEach(...) over the documents docs, in order
RECURSIVE RealPoolOf(_, _, _)
RealPoolOf(docs, subjects, pastBarIds) ==
  IF Len(docs) = 0 THEN <<>>
  ELSE LET k == Head(docs)
       IN (IF SubjMatch(subjects, DocSubject(k)) /\ IdMatch(pastBarIds, k)
           THEN QuestionsOfDoc(k) ELSE <<>>)
            \o RealPoolOf(Tail(docs), subjects, pastBarIds)

\* (!subjects || subjects.includes('all')) ? Object.keys(CONTENT) : subjects
TargetSubjs(subjects) ==
  IF ~subjects.given \/ Includes(subjects.list, "all")
  THEN [i \in 1..Len(CachedContent) |-> CachedContent[i].subj]
  ELSE subjects.list

\* Object.entries(CONTENT[subj] || {}) as the topics of the subject
TopicsOf(subj) ==
  IF \E i \in 1..Len(CachedContent) : CachedContent[i].subj = subj
  THEN CachedContent[CHOOSE i \in 1..Len(CachedContent) : CachedContent[i].subj = subj].topics
  ELSE <<>>

\* the questions of the topics tops of subject subj that pass the topic
\* filter, as <<subject, topic, index>>
RECURSIVE TopicQuestions(_, _, _)
TopicQuestions(subj, tops, topics) ==
  IF Len(tops) = 0 THEN <<>>
  ELSE LET t == Head(tops)
       IN (IF Len(topics) > 0 /\ ~Includes(topics, t.name) THEN <<>>
           ELSE [i \in 1..t.nq |-> <<subj, t.name, i>>])
            \o TopicQuestions(subj, Tail(tops), topics)

\* targetSubjs.forEach(...)
RECURSIVE PreGenPoolOf(_, _)
PreGenPoolOf(subjs, topics) ==
  IF Len(subjs) = 0 THEN <<>>
  ELSE TopicQuestions(Head(subjs), TopicsOf(Head(subjs)), topics)
         \o PreGenPoolOf(Tail(subjs), topics)

NoPools == [realPool |-> <<>>, preGenPool |-> <<>>]

\* the documents of the knowledge base, in order
DocsOf(S) == SelectSeq([k \in 1..MaxDocs |-> k], LAMBDA k : k \in S)

PoolInputs ==
  [docs : SUBSET (1..MaxDocs), subjects : SubjectFilters, pastBarIds : IdFilters,
   topics : TopicFilters, usePastBar : BOOLEAN, usePreGen : BOOLEAN]

\* STEP 1 and STEP 2 without the shuffles
BuildPools(in) ==
  [realPool   |-> IF in.usePastBar
                  THEN RealPoolOf(DocsOf(in.docs), in.subjects, in.pastBarIds)
                  ELSE <<>>,
   preGenPool |-> IF in.usePreGen
                  THEN PreGenPoolOf(TargetSubjs(in.subjects), in.topics)
                  ELSE <<>>]

buildPools ==
  /\ ppc = "ready"
  /\ ppc' = "done"
  /\ pout' = BuildPools(pin)
  /\ UNCHANGED pin
  /\ UNCHANGED <<qvars, mvars, ivars, gvars, xvars>>

InitPools ==
  /\ pin = [docs |-> {}, subjects |-> NoList, pastBarIds |-> NoList, topics |-> <<>>,
            usePastBar |-> FALSE, usePreGen |-> FALSE]
  /\ ppc = "idle"
  /\ pout = NoPools

NextPools == buildPools

\* ------------------------------------------------------------------------
\* JSON extractor: extractJSON (part_000:638-678)
\* Texts are strings; the character that opens a markdown code fence is
\* written ^ in this model (Fence is three of them).  A parsed value is
\* represented by its JSON text without insignificant whitespace, so that
\* deep equality of values is equality of strings; the value null and the
\* failure signal of extractJSON are both Null, as in the code.
\* ------------------------------------------------------------------------
Fence == "^^^"

\* the character of s at 1-based index i, "" outside s
Ch(s, i) == IF i >= 1 /\ i <= Len(s) THEN SubSeq(s, i, i) ELSE ""

\* String.prototype.indexOf(pat, from) with 1-based indexes, 0 for -1
IndexOfFrom(s, pat, from) ==
  LET I == {i \in from..(Len(s) - Len(pat) + 1) : SubSeq(s, i, i + Len(pat) - 1) = pat}
  IN IF I = {} THEN 0 ELSE CHOOSE i \in I : \A j \in I : i <= j

\* String.prototype.lastIndexOf(pat) with 1-based indexes, 0 for -1
LastIndexOf(s, pat) ==
  LET I == {i \in 1..(Len(s) - Len(pat) + 1) : SubSeq(s, i, i + Len(pat) - 1) = pat}
  IN IF I = {} THEN 0 ELSE CHOOSE i \in I : \A j \in I : i >= j

\* \s of the regular expressions, and what trim() removes
IsSpace(c) == c \in {" ", "\n", "\t", "\r"}

Digits == {"0", "1", "2", "3", "4", "5", "6", "7", "8", "9"}

\* [a-zA-Z0-9_]
WordChars ==
  Digits \cup {"_"} \cup
  {"a", "b", "c", "d", "e", "f", "g", "h", "i", "j", "k", "l", "m", "n", "o",
   "p", "q", "r", "s", "t", "u", "v", "w", "x", "y", "z"} \cup
  {"A", "B", "C", "D", "E", "F", "G", "H", "I", "J", "K", "L", "M", "N", "O",
   "P", "Q", "R", "S", "T", "U", "V", "W", "X", "Y", "Z"}

\* index of the first character at or after i that is not whitespace
RECURSIVE SkipSpace(_, _)
SkipSpace(s, i) == IF i <= Len(s) /\ IsSpace(Ch(s, i)) THEN SkipSpace(s, i + 1) ELSE i

\* index of the last character at or before i that is not whitespace
RECURSIVE SkipSpaceBack(_, _)
SkipSpaceBack(s, i) == IF i >= 1 /\ IsSpace(Ch(s, i)) THEN SkipSpaceBack(s, i - 1) ELSE i

\* String.prototype.trim()
Trim(s) == SubSeq(s, SkipSpace(s, 1), SkipSpaceBack(s, Len(s)))

\* index after the run of characters of set cs that starts at i
RECURSIVE SkipChars(_, _, _)
SkipChars(s, i, cs) == IF Ch(s, i) \in cs THEN SkipChars(s, i + 1, cs) ELSE i

ParseFail == [ok |-> FALSE, nxt |-> 0, val |-> ""]

\* a JSON string starting at the quote at i: no escapes, no control
\* characters (texts with a backslash are outside this model)
ParseString(s, i) ==
  LET j == IndexOfFrom(s, "\"", i + 1)
  IN IF j = 0 THEN ParseFail
     ELSE IF \E k \in (i + 1)..(j - 1) : Ch(s, k) \in {"\n", "\t", "\r", "\\"} THEN ParseFail
     ELSE [ok |-> TRUE, nxt |-> j + 1, val |-> SubSeq(s, i, j)]

\* a JSON number starting at the digit at i: unsigned integers (texts with
\* signs, fractions or exponents are outside this model); a leading 0 is a
\* number by itself
ParseNumber(s, i) ==
  IF Ch(s, i) = "0" THEN [ok |-> TRUE, nxt |-> i + 1, val |-> "0"]
  ELSE LET j == SkipChars(s, i, Digits)
       IN IF Ch(s, j) \in {".", "e", "E"} THEN ParseFail
          ELSE [ok |-> TRUE, nxt |-> j, val |-> SubSeq(s, i, j - 1)]

\* JSON value starting at index i (whitespace already skipped); nxt is the
\* index after the value
RECURSIVE ParseValue(_, _), ParseMembers(_, _, _), ParseElements(_, _, _)
ParseValue(s, i) ==
  LET c == Ch(s, i)
  IN IF c = "{"
     THEN LET j == SkipSpace(s, i + 1)
          IN IF Ch(s, j) = "}" THEN [ok |-> TRUE, nxt |-> j + 1, val |-> "{}"]
             ELSE ParseMembers(s, j, "{")
     ELSE IF c = "["
     THEN LET j == SkipSpace(s, i + 1)
          IN IF Ch(s, j) = "]" THEN [ok |-> TRUE, nxt |-> j + 1, val |-> "[]"]
             ELSE ParseElements(s, j, "[")
     ELSE IF c = "\"" THEN ParseString(s, i)
     ELSE IF c \in Digits THEN ParseNumber(s, i)
     ELSE IF SubSeq(s, i, Min(i + 3, Len(s))) = "true"
     THEN [ok |-> TRUE, nxt |-> i + 4, val |-> "true"]
     ELSE IF SubSeq(s, i, Min(i + 4, Len(s))) = "false"
     THEN [ok |-> TRUE, nxt |-> i + 5, val |-> "false"]
     ELSE IF SubSeq(s, i, Min(i + 3, Len(s))) = "null"
     THEN [ok |-> TRUE, nxt |-> i + 4, val |-> "null"]
     ELSE ParseFail

\* members of an object from the key at index i; acc is the value so far
ParseMembers(s, i, acc) ==
  IF Ch(s, i) # "\"" THEN ParseFail
  ELSE LET k == ParseString(s, i)
       IN IF ~k.ok THEN ParseFail
          ELSE LET c == SkipSpace(s, k.nxt)
               IN IF Ch(s, c) # ":" THEN ParseFail
                  ELSE LET v == ParseValue(s, SkipSpace(s, c + 1))
                       IN IF ~v.ok THEN ParseFail
                          ELSE LET e == SkipSpace(s, v.nxt)
                                   m == acc \o k.val \o ":" \o v.val
                               IN IF Ch(s, e) = ","
                                  THEN ParseMembers(s, SkipSpace(s, e + 1), m \o ",")
                                  ELSE IF Ch(s, e) = "}"
                                  THEN [ok |-> TRUE, nxt |-> e + 1, val |-> m \o "}"]
                                  ELSE ParseFail

\* elements of an array from the value at index i; acc is the value so far
ParseElements(s, i, acc) ==
  LET v == ParseValue(s, i)
  IN IF ~v.ok THEN ParseFail
     ELSE LET e == SkipSpace(s, v.nxt)
              m == acc \o v.val
          IN IF Ch(s, e) = ","
             THEN ParseElements(s, SkipSpace(s, e + 1), m \o ",")
             ELSE IF Ch(s, e) = "]"
             THEN [ok |-> TRUE, nxt |-> e + 1, val |-> m \o "]"]
             ELSE ParseFail

\* JSON.parse(s): ok |-> FALSE when it throws
JSONParse(s) ==
  LET i == SkipSpace(s, 1)
      v == ParseValue(s, i)
  IN IF i > Len(s) \/ ~v.ok THEN [ok |-> FALSE, val |-> ""]
     ELSE IF SkipSpace(s, v.nxt) = Len(s) + 1 THEN [ok |-> TRUE, val |-> v.val]
     ELSE [ok |-> FALSE, val |-> ""]

NoMatch == [found |-> FALSE, text |-> ""]

\* raw.match(/^^^(?:json)?\s*([\s\S]*?)^^^/i), group 1, trimmed
FenceMatch(raw) ==
  LET open == IndexOfFrom(raw, Fence, 1)
      a    == open + Len(Fence)
      tag  == /\ Ch(raw, a) \in {"j", "J"}
              /\ Ch(raw, a + 1) \in {"s", "S"}
              /\ Ch(raw, a + 2) \in {"o", "O"}
              /\ Ch(raw, a + 3) \in {"n", "N"}
      b    == IF tag THEN a + 4 ELSE a
      close == IndexOfFrom(raw, Fence, b)
  IN IF open = 0 \/ close = 0 THEN NoMatch
     ELSE [found |-> TRUE, text |-> Trim(SubSeq(raw, b, close - 1))]

\* raw.match(/(\{[\s\S]*\})/s) with opener { and closer }, or with [ and ]:
\* from the first opener to the last closer behind it
GreedyMatch(raw, opener, closer) ==
  LET f == IndexOfFrom(raw, opener, 1)
      l == LastIndexOf(raw, closer)
  IN IF f = 0 \/ l < f THEN NoMatch
     ELSE [found |-> TRUE, text |-> Trim(SubSeq(raw, f, l))]

\* Strategy 4: from the first { or [ to the last } or ]
SliceMatch(raw) ==
  LET fb == IndexOfFrom(raw, "{", 1)
      fk == IndexOfFrom(raw, "[", 1)
      si == IF fb # 0 /\ fk # 0 THEN Min(fb, fk)
            ELSE IF fb # 0 THEN fb ELSE fk
      trimmed == SubSeq(raw, si, Len(raw))
      ei == Max(LastIndexOf(trimmed, "}"), LastIndexOf(trimmed, "]"))
  IN IF si = 0 \/ ei = 0 THEN NoMatch
     ELSE [found |-> TRUE, text |-> SubSeq(trimmed, 1, ei)]

\* s.replace(/,\s*([}\]])/g, '$1') from index i on
RECURSIVE StripTrailingCommas(_, _)
StripTrailingCommas(s, i) ==
  IF i > Len(s) THEN ""
  ELSE LET j == SkipSpace(s, i + 1)
       IN IF Ch(s, i) = "," /\ Ch(s, j) \in {"}", "]"}
          THEN Ch(s, j) \o StripTrailingCommas(s, j + 1)
          ELSE Ch(s, i) \o StripTrailingCommas(s, i + 1)

\* s.replace(/(['"])?([a-zA-Z0-9_]+)(['"])?\s*:/g, '"$2":') from index i on
RECURSIVE QuoteKeys(_, _)
QuoteKeys(s, i) ==
  IF i > Len(s) THEN ""
  ELSE LET w == IF Ch(s, i) \in {"'", "\""} THEN i + 1 ELSE i
           e == SkipChars(s, w, WordChars)
           q == IF Ch(s, e) \in {"'", "\""} THEN e + 1 ELSE e
           c == SkipSpace(s, q)
       IN IF e > w /\ Ch(s, c) = ":"
          THEN "\"" \o SubSeq(s, w, e - 1) \o "\":" \o QuoteKeys(s, c + 1)
          ELSE Ch(s, i) \o QuoteKeys(s, i + 1)

\* Strategy 5: the two repairs
Cleaned(raw) == QuoteKeys(StripTrailingCommas(raw, 1), 1)

\* an extractor without the first strategy
CandidatesNoDirect(raw) ==
  << NoMatch,
     FenceMatch(raw),
     GreedyMatch(raw, "{", "}"),
     GreedyMatch(raw, "[", "]"),
     SliceMatch(raw),
     GreedyMatch(Cleaned(raw), "{", "}") >>

\* an extractor that tries the greedy spans before the fenced block
CandidatesGreedyBeforeFence(raw) ==
  << [found |-> TRUE, text |-> raw],
     GreedyMatch(raw, "{", "}"),
     GreedyMatch(raw, "[", "]"),
     FenceMatch(raw),
     SliceMatch(raw),
     GreedyMatch(Cleaned(raw), "{", "}") >>

\* The candidate texts of the strategies, in the order they are tried
Candidates(raw) ==
  << [found |-> TRUE, text |-> raw],
     FenceMatch(raw),
     GreedyMatch(raw, "{", "}"),
     GreedyMatch(raw, "[", "]"),
     SliceMatch(raw),
     GreedyMatch(Cleaned(raw), "{", "}") >>

\* first candidate from index k on that JSON.parse accepts; 0 if none
RECURSIVE FirstParsing(_, _)
FirstParsing(cands, k) ==
  IF k > Len(cands) THEN 0
  ELSE IF cands[k].found /\ JSONParse(cands[k].text).ok THEN k
  ELSE FirstParsing(cands, k + 1)

\* extractJSON(raw) for a string raw
extractJSON(raw) ==
  IF raw = "" THEN Null
  ELSE LET cands == Candidates(raw)
           k == FirstParsing(cands, 1)
       IN IF k = 0 THEN Null ELSE JSONParse(cands[k].text).val

\* ------------------------------------------------------------------------
\* One call of extractJSON (part_000:641-678) on any argument
\* ------------------------------------------------------------------------

\* the pieces the texts of this model are made of
Pieces == {"{", "}", "[", "]", "\"a\"", ":", ",", "0", "null", " ", Fence, "a"}

\* every text made of at most n pieces in a row
RECURSIVE PieceTexts(_)
PieceTexts(n) ==
  IF n = 0 THEN {""}
  ELSE LET T == PieceTexts(n - 1)
       IN T \cup {t \o p : t \in T, p \in Pieces}

\* longer texts of the kinds the provider answers with
SampleTexts ==
  { "I cannot help with that.",
    "{\"a\":1}",
    " [1, 2] ",
    "false",
    "{\"a\":[0,null],\"b\":{\"c\":\"d\"}}",
    "Here: {\"a\":1} ok",
    "^^^json\n{\"a\":1}\n^^^",
    "^^^\n[1,2]\n^^^ done",
    "see [1] and {\"a\":1}",
    "{a:1,}",
    "{\"a\":1,}",
    "\"^^^0^^^\"",
    "\"{}\"",
    "{\"a\":1} and {\"b\":2}",
    "Ok:\n^^^json\n{\"a\":1}\n^^^\nBye",
    "^^^[1]^^^ or {}",
    "[0] {\"a\":}",
    "x [0,] {a:1}" }

\* arguments that are not strings: undefined, null, 0, 7, false, true, {}
NonStrings ==
  { [kind |-> "undefined", text |-> ""],
    [kind |-> "null", text |-> ""],
    [kind |-> "number", text |-> "0"],
    [kind |-> "number", text |-> "7"],
    [kind |-> "boolean", text |-> "false"],
    [kind |-> "boolean", text |-> "true"],
    [kind |-> "object", text |-> "{}"] }

ExtractInputs ==
  {[kind |-> "string", text |-> t] : t \in PieceTexts(MaxPieces) \cup SampleTexts}
    \cup NonStrings

\* if (!raw || typeof raw !== 'string') return null;
ExtractGuard(v) == v.kind # "string" \/ v.text = ""

\* a first strategy that calls JSON.parse(raw) outside a try
DirectParseUncaught(raw) == FALSE

\* try { return JSON.parse(raw); } catch(_) {}
DirectParseCaught(raw) == TRUE

NoExtract == [threw |-> FALSE, val |-> Null, strategy |-> 0]

\* how extractJSON(v) ends: whether it threw, what it returned, and the
\* number of the candidate whose parse it returned (0 when it returned null
\* without one)
ExtractOutcome(v) ==
  IF ExtractGuard(v) THEN NoExtract
  ELSE LET cands == Candidates(v.text)
           k     == FirstParsing(cands, 1)
       IN IF k # 1 /\ ~DirectParseCaught(v.text)
          THEN [threw |-> TRUE, val |-> Null, strategy |-> 1]
          ELSE IF k = 0 THEN NoExtract
          ELSE [threw |-> FALSE, val |-> JSONParse(cands[k].text).val, strategy |-> k]

\* the call, from entry to return: it has no await
extractJSONCall ==
  /\ xpc = "ready"
  /\ xpc' = "done"
  /\ xres' = ExtractOutcome(xin)
  /\ UNCHANGED xin
  /\ UNCHANGED <<qvars, mvars, ivars, gvars, pvars>>

InitExtract ==
  /\ xin = [kind |-> "undefined", text |-> ""]
  /\ xpc = "idle"
  /\ xres = NoExtract

NextExtract == extractJSONCall

\* ------------------------------------------------------------------------
\* Model invoker: callClaude (src/server.js:1408-1444, same code at
\* part_000:2693-2729) and JSON-guaranteed invoker: callClaudeJSON
\* (part_000:2661-2691)
\* ------------------------------------------------------------------------
SONNET == "claude-sonnet-4-20250514"

HAIKU == "claude-haiku-4-5-20251001"

\* a schedule that waits the 60 s before the first fallback request
SCHEDULE_LateWait ==
  << [model |-> SONNET, waitBefore |-> 0],
     [model |-> SONNET, waitBefore |-> 20000],
     [model |-> HAIKU,  waitBefore |-> 60000],
     [model |-> HAIKU,  waitBefore |-> 0] >>

\* [model, milliseconds to wait BEFORE this attempt]; SCHEDULE[i] of the code
\* is SCHEDULE[i + 1] here
SCHEDULE ==
  << [model |-> SONNET, waitBefore |-> 0],
     [model |-> SONNET, waitBefore |-> 20000],
     [model |-> HAIKU,  waitBefore |-> 0],
     [model |-> HAIKU,  waitBefore |-> 60000] >>

OverloadedMessage == "API overloaded - please try again in a few minutes"

\* content blocks of a response: a block may have no text (c.text || '')
TextBlock(t) == [hasText |-> TRUE, text |-> t]

OtherBlock == [hasText |-> FALSE, text |-> ""]

\* the content arrays the provider answers with in this model
Contents ==
  { <<TextBlock("{\"a\":1}")>>,
    <<TextBlock("Here: "), OtherBlock, TextBlock("{\"a\":1} ok")>>,
    <<TextBlock("I cannot help with that.")>>,
    <<TextBlock("null")>>,
    <<>> }

\* what fetch + r.json() can give: HTTP status, d.error (type "none" when
\* the body has no error member) and d.content
Responses ==
  { [status |-> 529, errType |-> "overloaded_error", errMsg |-> "Overloaded", content |-> <<>>],
    [status |-> 429, errType |-> "rate_limit_error", errMsg |-> "Rate limited", content |-> <<>>],
    [status |-> 200, errType |-> "overloaded_error", errMsg |-> "Overloaded", content |-> <<>>],
    [status |-> 400, errType |-> "invalid_request_error", errMsg |-> "Bad request", content |-> <<>>] }
  \cup
  { [status |-> 200, errType |-> "none", errMsg |-> "", content |-> c] : c \in Contents }

\* const isOverloaded = (status, body) => status === 529 || status === 429
\*                                     || body?.error?.type === 'overloaded_error'
isOverloaded(status, body) ==
  status = 529 \/ status = 429 \/ body.errType = "overloaded_error"

\* d.content.map(c => c.text || '').join('')
RECURSIVE JoinText(_)
JoinText(content) ==
  IF Len(content) = 0 THEN ""
  ELSE (IF Head(content).hasText THEN Head(content).text ELSE "") \o JoinText(Tail(content))

\* a classification that retries a provider error like an overload
AfterAnswerRetryAll(i, r) ==
  IF isOverloaded(r.status, r) \/ r.errType # "none"
  THEN IF i < Len(SCHEDULE) - 1 THEN "continue" ELSE "throwOverloaded"
  ELSE "return"

\* what the body of the for loop does with the answer to request i (0-based)
AfterAnswer(i, r) ==
  IF isOverloaded(r.status, r)
  THEN IF i < Len(SCHEDULE) - 1 THEN "continue" ELSE "throwOverloaded"
  ELSE IF r.errType # "none" THEN "throwProvider"
  ELSE "return"

\* how a response is classified in the histories below
AnswerClass(r) ==
  IF isOverloaded(r.status, r) THEN "overloaded"
  ELSE IF r.errType # "none" THEN "hard" ELSE "success"

NoOutcome == [kind |-> "none", val |-> ""]

NoResponse == [status |-> 0, errType |-> "none", errMsg |-> "", content |-> <<>>]

\* locals and history of one callClaude invocation: loop index i, the
\* requests issued (model, milliseconds slept since the previous request or
\* since entry), the classes of the answers, and how the invocation ended
NewCall == [i |-> 0, waited |-> 0, reqLog |-> <<>>, answers |-> <<>>, res |-> NoOutcome]

\* Top of the for loop for index i, up to the next await: a positive
\* waitBefore suspends in sleep, otherwise the request is issued.
LoopTop(c, i) ==
  IF SCHEDULE[i + 1].waitBefore > 0
  THEN [pc |-> "ccSleep", cc |-> [c EXCEPT !.i = i]]
  ELSE [pc |-> "ccFetch",
        cc |-> [c EXCEPT !.i = i, !.waited = 0,
                         !.reqLog = Append(@, [model |-> SCHEDULE[i + 1].model,
                                               waited |-> c.waited])]]

\* attempt++ ; attempt <= retries  of the for loop of callClaudeJSON
JsonLoopStopsEarly(attempt, retries) == attempt + 1 < retries

JsonLoopContinues(attempt, retries) == attempt + 1 <= retries

\* a catch clause that rethrows whatever the attempt
PropagateAlways(attempt, retries) == attempt <= retries

\* catch (e) { if (attempt === retries) throw e; ... }
PropagateError(attempt, retries) == attempt = retries

\* an `await sleep(2000)` after every failed extraction, the last one too
SleepsAfterFailedExtractionAlways(attempt, retries) == attempt <= retries

\* if (attempt < retries) await sleep(2000);
SleepsAfterFailedExtraction(attempt, retries) == attempt < retries

\* JSON_FORMAT_REMINDER (the markdown fence of rule 4 is written ^^^ and the
\* dash of the heading - here)
JSON_FORMAT_REMINDER ==
  "\n\nRESPONSE FORMAT - STRICTLY FOLLOW:\n1. Your ENTIRE response must be valid JSON only\n2. Start with { or [ immediately - no preamble\n3. End with } or ] - no text after\n4. No markdown code fences (no ^^^)\n5. No explanations before or after the JSON\n6. If unsure, return the JSON with empty arrays rather than explaining why"

\* the directive the attempts after the first append
CRITICAL_DIRECTIVE ==
  "\n\nCRITICAL: Output ONLY the JSON object/array. Do NOT write any words or sentences. Do NOT use markdown. Start with { or [. If you cannot comply, return {}."

\* String.prototype.includes(pat)
StrIncludes(s, pat) == IndexOfFrom(s, pat, 1) # 0

\* const alreadyHasInstruction = m.content.includes('valid JSON') || ...
alreadyHasInstruction(m) ==
  \/ StrIncludes(m.content, "valid JSON")
  \/ StrIncludes(m.content, "ONLY JSON")
  \/ StrIncludes(m.content, "ONLY with valid JSON")

\* const msgs = messages.map((m, i) => { ... })
MapMessages(messages) ==
  [i \in 1..Len(messages) |->
     IF i # Len(messages) \/ messages[i].role # "user" THEN messages[i]
     ELSE IF alreadyHasInstruction(messages[i]) THEN messages[i]
     ELSE [messages[i] EXCEPT !.content = @ \o JSON_FORMAT_REMINDER]]

\* a retry that sends the whole conversation with the directive on its last turn
AttemptMessagesWholeConversation(msgs, attempt) ==
  IF attempt = 1 THEN msgs
  ELSE [msgs EXCEPT ![Len(msgs)].content = @ \o CRITICAL_DIRECTIVE]

\* the first argument of callClaude on the attempt: msgs on attempt 1, later
\* [attemptMsgs[0]], the one-element list made of the last of msgs with the
\* directive appended
AttemptMessages(msgs, attempt) ==
  IF attempt = 1 THEN msgs
  ELSE << [msgs[Len(msgs)] EXCEPT !.content = @ \o CRITICAL_DIRECTIVE] >>

\* the conversations callClaudeJSON is called with in this model: one user
\* turn without and with a JSON instruction (what the callers of this file
\* pass), a conversation of three turns, and one that ends with an
\* assistant turn
Conversations ==
  { << [role |-> "user", content |-> "List the topics."] >>,
    << [role |-> "user", content |-> "List the topics. Respond ONLY with valid JSON."] >>,
    << [role |-> "user", content |-> "Here is the text."],
       [role |-> "assistant", content |-> "Understood."],
       [role |-> "user", content |-> "List the topics."] >>,
    << [role |-> "user", content |-> "List the topics."],
       [role |-> "assistant", content |-> "{"] >> }

\* locals and history of one callClaudeJSON invocation: calls counts the
\* callClaude calls made, requests the provider requests of the calls
\* that have settled, jlog how each attempt ended, messages the argument,
\* sent the first argument of each callClaude call
NoJsonCall ==
  [entry |-> "none", retries |-> 0, attempt |-> 0, calls |-> 0, requests |-> 0,
   jlog |-> <<>>, messages |-> <<>>, sent |-> <<>>]

\* callClaude(messages, max_tokens) called directly
callClaudeStart ==
  /\ ipc = "idle"
  /\ LET s == LoopTop(NewCall, 0)
     IN /\ ipc' = s.pc
        /\ cc' = s.cc
  /\ cj' = [NoJsonCall EXCEPT !.entry = "callClaude", !.calls = 1]
  /\ UNCHANGED <<lastResp, ires>>
  /\ UNCHANGED <<qvars, mvars, gvars, xvars, pvars>>

\* callClaudeJSON(messages, maxTokens, retries) up to the first await
callClaudeJSONStart(messages, retries) ==
  /\ ipc = "idle"
  /\ LET s == LoopTop(NewCall, 0)
     IN /\ ipc' = s.pc
        /\ cc' = s.cc
  /\ cj' = [entry |-> "callClaudeJSON", retries |-> retries, attempt |-> 1,
            calls |-> 1, requests |-> 0, jlog |-> <<>>, messages |-> messages,
            sent |-> <<AttemptMessages(MapMessages(messages), 1)>>]
  /\ UNCHANGED <<lastResp, ires>>
  /\ UNCHANGED <<qvars, mvars, gvars, xvars, pvars>>

\* callClaude resumes after `await sleep(waitBefore)` and issues the request
callClaudeSleepEnds ==
  /\ ipc = "ccSleep"
  /\ LET w == cc.waited + SCHEDULE[cc.i + 1].waitBefore
     IN cc' = [cc EXCEPT !.waited = 0,
                         !.reqLog = Append(@, [model |-> SCHEDULE[cc.i + 1].model,
                                               waited |-> w])]
  /\ ipc' = "ccFetch"
  /\ UNCHANGED <<cj, lastResp, ires>>
  /\ UNCHANGED <<qvars, mvars, gvars, xvars, pvars>>

\* How callClaudeJSON goes on when the callClaude it awaits has settled with
\* outcome o, up to its next await or its end.
JsonAfterCall(o) ==
  IF o.kind = "returned"
  THEN LET parsed == extractJSON(o.val)
       IN IF parsed # Null
          THEN [pc |-> "returned", res |-> [kind |-> "returned", val |-> parsed],
                entry |-> [outcome |-> "parsed", slept |-> 0]]
          ELSE IF SleepsAfterFailedExtraction(cj.attempt, cj.retries)
          THEN [pc |-> "cjSleep2", res |-> NoOutcome,
                entry |-> [outcome |-> "unparseable", slept |-> 0]]
          ELSE [pc |-> "returned", res |-> [kind |-> "returned", val |-> Null],
                entry |-> [outcome |-> "unparseable", slept |-> 0]]
  ELSE IF PropagateError(cj.attempt, cj.retries)
       THEN [pc |-> "threw", res |-> o, entry |-> [outcome |-> "error", slept |-> 0]]
       ELSE [pc |-> "cjSleep3", res |-> NoOutcome,
             entry |-> [outcome |-> "error", slept |-> 0]]

\* callClaude resumes after `await fetch(...)` / `await r.json()` with
\* response r; when it returns or throws, its caller goes on.
callClaudeAnswered(r) ==
  /\ ipc = "ccFetch"
  /\ lastResp' = r
  /\ LET c1  == [cc EXCEPT !.answers = Append(@, AnswerClass(r))]
         act == AfterAnswer(cc.i, r)
     IN IF act = "continue"
        THEN LET s == LoopTop(c1, cc.i + 1)
             IN /\ ipc' = s.pc
                /\ cc' = s.cc
                /\ UNCHANGED <<cj, ires>>
        ELSE LET o == IF act = "throwOverloaded"
                      THEN [kind |-> "threw", val |-> OverloadedMessage]
                      ELSE IF act = "throwProvider"
                      THEN [kind |-> "threw", val |-> r.errMsg]
                      ELSE [kind |-> "returned", val |-> JoinText(r.content)]
             IN /\ cc' = [c1 EXCEPT !.res = o]
                /\ IF cj.entry = "callClaude"
                   THEN /\ ipc' = o.kind
                        /\ ires' = o
                        /\ UNCHANGED cj
                   ELSE LET j == JsonAfterCall(o)
                        IN /\ ipc' = j.pc
                           /\ ires' = j.res
                           /\ cj' = [cj EXCEPT !.jlog = Append(@, j.entry),
                                               !.requests = @ + Len(cc.reqLog)]
  /\ UNCHANGED <<qvars, mvars, gvars, xvars, pvars>>

\* callClaudeJSON resumes after `await sleep(2000)` (failed extraction) or
\* `await sleep(3000)` (callClaude threw): next iteration of its loop.
callClaudeJSONSleepEnds ==
  /\ ipc \in {"cjSleep2", "cjSleep3"}
  /\ LET slept == IF ipc = "cjSleep2" THEN 2000 ELSE 3000
         log   == [cj.jlog EXCEPT ![Len(cj.jlog)].slept = slept]
     IN IF JsonLoopContinues(cj.attempt, cj.retries)
        THEN LET s == LoopTop(NewCall, 0)
             IN /\ ipc' = s.pc
                /\ cc' = s.cc
                /\ cj' = [cj EXCEPT !.attempt = @ + 1, !.calls = @ + 1, !.jlog = log,
                                    !.sent = Append(@, AttemptMessages(MapMessages(cj.messages),
                                                                       cj.attempt + 1))]
                /\ UNCHANGED ires
        ELSE /\ ipc' = "returned"
             /\ ires' = [kind |-> "returned", val |-> Null]
             /\ cj' = [cj EXCEPT !.jlog = log]
             /\ UNCHANGED cc
  /\ UNCHANGED lastResp
  /\ UNCHANGED <<qvars, mvars, gvars, xvars, pvars>>

InitInvoke ==
  /\ ipc = "idle"
  /\ cc = NewCall
  /\ cj = NoJsonCall
  /\ lastResp = NoResponse
  /\ ires = NoOutcome

NextInvoke ==
  \/ callClaudeStart
  \/ \E messages \in Conversations, retries \in 1..MaxRetries :
       callClaudeJSONStart(messages, retries)
  \/ callClaudeSleepEnds
  \/ \E r \in Responses : callClaudeAnswered(r)
  \/ callClaudeJSONSleepEnds

\* ------------------------------------------------------------------------
\* Pre-generation engine: triggerPreGeneration, triggerPreGenerationForSubject,
\* runGenQueue, generateTopicContent, broadcast, saveContent
\* (src/server.js:96-100, 123, 443-446, 652-770; part_000:1753-1867)
\* The syllabus is a fixture: topics 1..MaxTopics under the subjects "civil"
\* and "labor", and one more topic under a subject key that is not valid.
\* A timestamp is the number of the trigger call that produced it.
\* ------------------------------------------------------------------------
VALID_SUBJECTS == {"civil", "labor"}

SyllabusSubjects == <<"civil", "labor", "misc">>

SubjectOf(t) ==
  IF t > MaxTopics THEN "misc" ELSE IF t % 3 = 0 THEN "labor" ELSE "civil"

\* KB.syllabus.topics: every subject with its topics, in syllabus order
SyllabusTopics(subjKey) ==
  SelectSeq([t \in 1..(MaxTopics + 1) |-> t], LAMBDA t : SubjectOf(t) = subjKey)

QueueItem(subjKey, t) == [subjKey |-> subjKey, topicName |-> t]

RECURSIVE FlattenSubjects(_)
FlattenSubjects(subjs) ==
  IF Len(subjs) = 0 THEN <<>>
  ELSE LET subj  == Head(subjs)
           items == IF subj \in VALID_SUBJECTS
                    THEN [i \in 1..Len(SyllabusTopics(subj)) |->
                            QueueItem(subj, SyllabusTopics(subj)[i])]
                    ELSE <<>>
       IN items \o FlattenSubjects(Tail(subjs))

\* the queue triggerPreGeneration builds
FullQueue == FlattenSubjects(SyllabusSubjects)

\* the queue triggerPreGenerationForSubject builds
SubjectQueue(subjKey) ==
  [i \in 1..Len(SyllabusTopics(subjKey)) |-> QueueItem(subjKey, SyllabusTopics(subjKey)[i])]

\* a trigger that starts a pass whether or not one is running
TriggerReturnsEarlyNoGuard(running, syllabus) == ~syllabus

\* if (GEN.running || !KB.syllabus) return;
TriggerReturnsEarly(running, syllabus) == running \/ ~syllabus

\* what the awaited model call of generateTopicContent can come to
GenOutcomes == {"content", "unparseable", "throws"}

\* the message broadcast() sends to every subscriber
Broadcast(gen) ==
  [ev |-> "broadcast", done |-> gen.done, total |-> gen.total,
   current |-> gen.current, running |-> gen.running,
   finished |-> (gen.finishedAt # 0 /\ ~gen.running), errors |-> Len(gen.errors)]

\* engine steps kept in the history next to the broadcasts
Step(ev, k, gen) ==
  [ev |-> ev, done |-> gen.done, total |-> gen.total, current |-> k,
   running |-> gen.running, finished |-> FALSE, errors |-> Len(gen.errors)]

\* the message the progress route sends to a new subscriber: no errors
\* member (-1 here)
Snapshot(gen) ==
  [ev |-> "snapshot", done |-> gen.done, total |-> gen.total,
   current |-> gen.current, running |-> gen.running,
   finished |-> (gen.finishedAt # 0 /\ ~gen.running), errors |-> -1]

\* subscribers are numbered; the write of a subscriber either works or throws
ClientIds == 1..2

WriteModes == {"works", "throws"}

NoMessage ==
  [ev |-> "none", done |-> 0, total |-> 0, current |-> 0, running |-> FALSE,
   finished |-> FALSE, errors |-> -1]

\* an sseSend that lets the exception of client.write out
SseSendRethrows(client) == FALSE

\* function sseSend(client, data) { try { client.write(...); } catch(e){} }
SseSendCatches(client) == TRUE

\* GEN.clients.forEach(c => sseSend(c, msg)) from the i-th subscriber on:
\* the inboxes afterwards
RECURSIVE ForEachSend(_, _, _, _)
ForEachSend(cl, i, box, msg) ==
  IF i > Len(cl) THEN box
  ELSE IF cl[i].mode = "throws"
  THEN IF SseSendCatches(cl[i]) THEN ForEachSend(cl, i + 1, box, msg) ELSE box
  ELSE ForEachSend(cl, i + 1, [box EXCEPT ![cl[i].id] = msg], msg)

\* the broadcasts among the entries of log after the first `from`
Published(from, log) ==
  SelectSeq(SubSeq(log, from + 1, Len(log)), LAMBDA e : e.ev = "broadcast")

\* the inboxes after the messages msgs were broadcast one after the other
RECURSIVE SendAll(_, _, _)
SendAll(cl, box, msgs) ==
  IF Len(msgs) = 0 THEN box
  ELSE SendAll(cl, ForEachSend(cl, 1, box, Head(msgs)), Tail(msgs))

\* an entry of CONTENT; run is its generatedAt
Entry(status, run) == [status |-> status, run |-> run]

\* delete CONTENT[subjKey]
DeleteSubject(content, subjKey) ==
  [t \in {x \in DOMAIN content : SubjectOf(x) # subjKey} |-> content[t]]

\* generateTopicContent up to its first await: without reference material
\* for the subject the no_materials entry is written and the function is over
TopicContentStart(content, item, refs, run) ==
  IF item.subjKey \notin refs
  THEN MapSet(content, item.topicName, Entry("no_materials", run))
  ELSE content

\* generateTopicContent after its await, given what the model call came to:
\* the cache after it and whether it threw.  server.js parses the text of
\* callClaude with JSON.parse; part_000 gets null from callClaudeJSON for
\* text that cannot be parsed and stores the generation_failed entry.
TopicContentResume(rev, content, item, refs, outcome, run) ==
  IF item.subjKey \notin refs
  THEN [content |-> content, threw |-> FALSE]
  ELSE IF outcome = "throws"
  THEN [content |-> content, threw |-> TRUE]
  ELSE IF outcome = "unparseable"
  THEN IF rev = "server.js"
       THEN [content |-> content, threw |-> TRUE]
       ELSE [content |-> MapSet(content, item.topicName, Entry("generation_failed", run)),
             threw |-> FALSE]
  ELSE [content |-> MapSet(content, item.topicName, Entry("content", run)),
        threw |-> FALSE]

\* a catch clause of runGenQueue that gives up the pass
AbortsOnError(threw) == threw

\* catch(e) { ...; GEN.errors.push(...); GEN.done++; }  then the loop goes on
AbortsOnThrow(threw) == FALSE

\* a catch clause that does not count the topic
DoneAfterCatchSame(done) == done

\* catch(e) { ...; GEN.errors.push(...); GEN.done++; }
DoneAfterCatch(done) == done + 1

\* a try clause that leaves the write to the end of the pass
SavesAfterTopicNever(threw) == FALSE

\* try { await generateTopicContent(...); GEN.done++; saveContent(); }
SavesAfterTopic(threw) == ~threw

\* The for loop of runGenQueue from item k to the next await, or, past the
\* last item, the end of the pass.  s holds GEN, CONTENT, the persisted
\* copy, the history and the number of active passes.
GenLoopTop(s, queue, k, refs, run) ==
  IF k > Len(queue)
  THEN LET gen1 == [s.gen EXCEPT !.running = FALSE, !.current = 0, !.finishedAt = run]
       IN [gen |-> gen1, content |-> s.content, persisted |-> s.content,
           log |-> Append(s.log, Broadcast(gen1)), pc |-> "idle", idx |-> k,
           passes |-> s.passes - 1]
  ELSE LET gen1 == [s.gen EXCEPT !.current = queue[k].topicName]
       IN [gen |-> gen1,
           content |-> TopicContentStart(s.content, queue[k], refs, run),
           persisted |-> s.persisted,
           log |-> s.log \o <<Broadcast(gen1), Step("begin", k, gen1)>>,
           pc |-> "generating", idx |-> k, passes |-> s.passes]

\* runGenQueue(queue) up to its first await
RunGenQueueStart(s, queue, refs, run) ==
  LET gen1 == [s.gen EXCEPT !.running = TRUE, !.total = Len(queue), !.done = 0,
                            !.errors = <<>>, !.startedAt = run, !.finishedAt = 0]
  IN GenLoopTop([s EXCEPT !.gen = gen1, !.log = <<Broadcast(gen1)>>,
                          !.passes = @ + 1],
                queue, 1, refs, run)

IdleGEN ==
  [running |-> FALSE, total |-> 0, done |-> 0, current |-> 0, errors |-> <<>>,
   startedAt |-> 0, finishedAt |-> 0]

GenNow ==
  [gen |-> GEN, content |-> CONTENT, persisted |-> persisted, log |-> glog,
   pc |-> gpc, idx |-> genIdx, passes |-> activePasses]

GenBecomes(s, queue) ==
  /\ GEN' = s.gen
  /\ CONTENT' = s.content
  /\ persisted' = s.persisted
  /\ glog' = s.log
  /\ gpc' = s.pc
  /\ genIdx' = s.idx
  /\ activePasses' = s.passes
  /\ genQueue' = queue

NoDiscard == [run |-> 0, subject |-> "none"]

\* history of a trigger call that returned at once: when a run was active,
\* that run and what the call asked to regenerate ("all" or a subject)
Discarded(gen, what, last) ==
  IF gen.running THEN [run |-> gen.startedAt, subject |-> what] ELSE last

\* triggerPreGeneration(), from an HTTP handler
triggerPreGeneration ==
  /\ triggers < MaxTriggers
  /\ triggers' = triggers + 1
  /\ IF TriggerReturnsEarly(GEN.running, hasSyllabus) \/ Len(FullQueue) = 0
     THEN /\ ignored' = ignored + 1
          /\ lastDiscard' = Discarded(GEN, "all", lastDiscard)
          /\ UNCHANGED <<GEN, CONTENT, persisted, glog, gpc, genIdx, activePasses,
                         genQueue, inbox>>
     ELSE /\ GenBecomes(RunGenQueueStart(GenNow, FullQueue, refSubjects, triggers + 1),
                        FullQueue)
          /\ inbox' = SendAll(clients, inbox, Published(0, glog'))
          /\ UNCHANGED <<ignored, lastDiscard>>
  /\ UNCHANGED <<hasSyllabus, refSubjects, clients>>
  /\ UNCHANGED <<qvars, mvars, ivars, xvars, pvars>>

\* triggerPreGenerationForSubject(subjKey) up to its first await: what it
\* does to the engine
triggerForSubjectCall(subjKey) ==
  /\ triggers < MaxTriggers
  /\ triggers' = triggers + 1
  /\ IF \/ TriggerReturnsEarly(GEN.running, hasSyllabus)
        \/ subjKey \notin VALID_SUBJECTS
     THEN /\ ignored' = ignored + 1
          /\ lastDiscard' = Discarded(GEN, subjKey, lastDiscard)
          /\ UNCHANGED <<GEN, CONTENT, persisted, glog, gpc, genIdx, activePasses,
                         genQueue, inbox>>
     ELSE /\ GenBecomes(RunGenQueueStart([GenNow EXCEPT
                                            !.content = DeleteSubject(CONTENT, subjKey)],
                                         SubjectQueue(subjKey), refSubjects,
                                         triggers + 1),
                        SubjectQueue(subjKey))
          /\ inbox' = SendAll(clients, inbox, Published(0, glog'))
          /\ UNCHANGED <<ignored, lastDiscard>>
  /\ UNCHANGED <<hasSyllabus, refSubjects, clients>>

\* triggerPreGenerationForSubject(subjKey), called while nothing else of the
\* model is under way
triggerPreGenerationForSubject(subjKey) ==
  /\ triggerForSubjectCall(subjKey)
  /\ UNCHANGED <<qvars, mvars, ivars, xvars, pvars>>

\* runGenQueue resumes after `await generateTopicContent(...)`: the try or
\* the catch clause, the broadcast, and the call of sleep(600)
topicSettles(outcome) ==
  /\ gpc = "generating"
  /\ LET item == genQueue[genIdx]
         r    == TopicContentResume(revision, CONTENT, item, refSubjects, outcome,
                                    GEN.startedAt)
         gen1 == IF r.threw
                 THEN [GEN EXCEPT !.errors = Append(@, item.topicName),
                                  !.done = DoneAfterCatch(@)]
                 ELSE [GEN EXCEPT !.done = @ + 1]
         log1 == glog
                   \o (IF outcome = "unparseable" /\ item.subjKey \in refSubjects
                       THEN <<Step("unparseable", genIdx, GEN)>> ELSE <<>>)
                   \o <<Step(IF r.threw THEN "threw" ELSE "returned", genIdx, gen1),
                        Broadcast(gen1)>>
     IN IF AbortsOnThrow(r.threw)
        THEN /\ GEN' = [GEN EXCEPT !.running = FALSE]
             /\ gpc' = "idle"
             /\ activePasses' = activePasses - 1
             /\ UNCHANGED <<CONTENT, persisted, glog, inbox>>
        ELSE /\ GEN' = gen1
             /\ CONTENT' = r.content
             /\ persisted' = IF SavesAfterTopic(r.threw) THEN r.content ELSE persisted
             /\ glog' = log1
             /\ inbox' = SendAll(clients, inbox, Published(Len(glog), log1))
             /\ gpc' = "sleeping"
             /\ UNCHANGED activePasses
  /\ UNCHANGED <<genQueue, genIdx, triggers, ignored, lastDiscard, hasSyllabus, refSubjects,
                 clients>>
  /\ UNCHANGED <<qvars, mvars, ivars, xvars, pvars>>

\* an iteration that passes over every other item
NextItemSkips(k) == k + 2

\* for (const item of queue): the item after the k-th
NextItem(k) == k + 1

\* runGenQueue resumes after `await sleep(600)`: the next item, or the end
genSleepEnds ==
  /\ gpc = "sleeping"
  /\ GenBecomes(GenLoopTop([GenNow EXCEPT !.log = Append(@, Step("slept", genIdx, GEN))],
                           genQueue, NextItem(genIdx), refSubjects, GEN.startedAt),
                genQueue)
  /\ inbox' = SendAll(clients, inbox, Published(Len(glog), glog'))
  /\ UNCHANGED <<triggers, ignored, lastDiscard, hasSyllabus, refSubjects, clients>>
  /\ UNCHANGED <<qvars, mvars, ivars, xvars, pvars>>

InitGen ==
  /\ GEN = IdleGEN
  /\ CONTENT = <<>>
  /\ persisted = <<>>
  /\ gpc = "idle"
  /\ genQueue = <<>>
  /\ genIdx = 0
  /\ activePasses = 0
  /\ triggers = 0
  /\ ignored = 0
  /\ lastDiscard = NoDiscard
  /\ glog = <<>>
  /\ clients = <<>>
  /\ inbox = [c \in ClientIds |-> NoMessage]

\* GET /api/gen/progress by a subscriber whose write works or throws: it is
\* added to GEN.clients and sent the current progress
subscribe(id, mode) ==
  /\ \A i \in 1..Len(clients) : clients[i].id # id
  /\ clients' = Append(clients, [id |-> id, mode |-> mode])
  /\ inbox' = ForEachSend(<<[id |-> id, mode |-> mode]>>, 1, inbox, Snapshot(GEN))
  /\ UNCHANGED <<GEN, CONTENT, persisted, gpc, genQueue, genIdx, hasSyllabus,
                 refSubjects, activePasses, triggers, ignored, lastDiscard, glog>>
  /\ UNCHANGED <<qvars, mvars, ivars, xvars, pvars>>

\* req.on('close', () => GEN.clients.delete(res))
disconnect(id) ==
  /\ \E i \in 1..Len(clients) : clients[i].id = id
  /\ clients' = SelectSeq(clients, LAMBDA c : c.id # id)
  /\ inbox' = [inbox EXCEPT ![id] = NoMessage]
  /\ UNCHANGED <<GEN, CONTENT, persisted, gpc, genQueue, genIdx, hasSyllabus,
                 refSubjects, activePasses, triggers, ignored, lastDiscard, glog>>
  /\ UNCHANGED <<qvars, mvars, ivars, xvars, pvars>>

\* ------------------------------------------------------------------------
\* The work unit of POST /api/admin/reference (src/server.js:467-481): it
\* awaits the summary, stores it and calls triggerPreGenerationForSubject
\* without awaiting it, then returns
\* ------------------------------------------------------------------------
ReferenceUnit == "reference"

\* the subjects references are uploaded for in this model
ReferenceSubjects == {"labor"}

\* The work unit resumes after `await summarizeLargeDoc(...)`: it stores the
\* summary, makes the trigger call (which runs up to the first await of
\* runGenQueue and is not awaited) and returns; what is left of the unit is
\* a resolved promise.  A unit whose summarizeLargeDoc rejects settles as a
\* rejected one.
referenceUnitResumes(subject) ==
  /\ qpc = "awaitFn"
  /\ curJob.fn = ReferenceUnit
  /\ curJob' = [curJob EXCEPT !.fn = "resolves"]
  /\ IF hasSyllabus
     THEN triggerForSubjectCall(subject)
     ELSE UNCHANGED gvars
  /\ UNCHANGED <<JOB_MAP, JOB_QUEUE, JOB_RUNNING, qpc, timers, nextId, enqLog,
                 startLog, finishLog, delayLog, lastWait, lastRead>>
  /\ UNCHANGED <<mvars, ivars, xvars, pvars>>

\* the knowledge base while the other components run
InitKB ==
  /\ hasSyllabus = TRUE
  /\ refSubjects = {}

NextGen ==
  \/ triggerPreGeneration
  \/ \E subjKey \in VALID_SUBJECTS \cup {"misc"} : triggerPreGenerationForSubject(subjKey)
  \/ \E outcome \in GenOutcomes : topicSettles(outcome)
  \/ genSleepEnds

\* the engine under either revision, with or without a syllabus, with
\* reference material for any set of subjects
GenInit ==
  /\ InitQueue /\ InitMock /\ InitInvoke /\ InitGen /\ InitExtract /\ InitPools
  /\ revision \in Revisions
  /\ hasSyllabus \in BOOLEAN
  /\ refSubjects \in SUBSET VALID_SUBJECTS

SpecGen == GenInit /\ [][NextGen]_vars

\* the engine of server.js with reference material for one of the subjects,
\* and subscribers of its progress that come and go
NextSSE ==
  \/ NextGen
  \/ \E id \in ClientIds, mode \in WriteModes : subscribe(id, mode)
  \/ \E id \in ClientIds : disconnect(id)

SSEInit ==
  /\ InitQueue /\ InitMock /\ InitInvoke /\ InitGen /\ InitExtract /\ InitPools
  /\ revision = "server.js"
  /\ hasSyllabus = TRUE
  /\ refSubjects = {"labor"}

SpecSSE == SSEInit /\ [][NextSSE]_vars

InvokeInit ==
  InitQueue /\ InitMock /\ revision = "part_000" /\ InitInvoke /\ InitGen /\ InitKB /\ InitExtract /\ InitPools

\* one call of the extractor on any of the inputs
ExtractInit ==
  /\ InitQueue /\ InitMock /\ revision = "part_000" /\ InitInvoke /\ InitGen /\ InitKB
  /\ InitPools
  /\ xin \in ExtractInputs
  /\ xpc = "ready"
  /\ xres = NoExtract

SpecExtract == ExtractInit /\ [][NextExtract]_vars

SpecInvoke == InvokeInit /\ [][NextInvoke]_vars

\* The invoker when every timer of sleep fires.  Nothing in callClaude makes
\* a fetch settle: the call passes no signal and starts no timer next to
\* it, so the step that resumes it is the provider's answer alone, and a
\* provider that never answers is a behaviour of this specification.
SpecInvokeLive ==
  InvokeInit /\ [][NextInvoke]_vars
    /\ WF_vars(callClaudeSleepEnds) /\ WF_vars(callClaudeJSONSleepEnds)

MockInit ==
  InitQueue /\ InitMock /\ revision \in Revisions /\ InitInvoke /\ InitGen /\ InitKB /\ InitExtract /\ InitPools

SpecMock == MockInit /\ [][NextMock]_vars

\* one building of the pools for any knowledge base and any filters
PoolsInit ==
  /\ InitQueue /\ InitMock /\ revision \in Revisions /\ InitInvoke /\ InitGen /\ InitKB
  /\ InitExtract
  /\ pin \in PoolInputs
  /\ ppc = "ready"
  /\ pout = NoPools

SpecPools == PoolsInit /\ [][NextPools]_vars

\* the job queue with reference-upload jobs next to the engine they trigger
NextUpload ==
  \/ \E fn \in WorkUnits \cup {ReferenceUnit} : enqueueJob(fn)
  \/ \E subject \in ReferenceSubjects : referenceUnitResumes(subject)
  \/ workUnitSettles
  \/ interJobSleepEnds
  \/ \E outcome \in GenOutcomes : topicSettles(outcome)
  \/ genSleepEnds

\* the route has pushed the reference into KB.references before it
\* enqueues the job, so the subject has reference material
UploadInit ==
  /\ InitQueue /\ InitMock /\ InitInvoke /\ InitGen /\ InitExtract /\ InitPools
  /\ revision = "server.js"
  /\ hasSyllabus = TRUE
  /\ refSubjects = ReferenceSubjects

SpecUpload == UploadInit /\ [][NextUpload]_vars

Init ==
  InitQueue /\ InitMock /\ revision = "server.js" /\ InitInvoke /\ InitGen /\ InitKB /\ InitExtract /\ InitPools

Next ==
  \/ \E fn \in WorkUnits : enqueueJob(fn)
  \/ workUnitSettles
  \/ interJobSleepEnds
  \/ expireJob
  \/ \E jobId \in 1..MaxJobs : getJobStatus(jobId)

Spec == Init /\ [][Next]_vars

\* The job queue when every work unit settles and every timer of sleep
\* fires: the two steps that resume processQueue are taken when enabled.
SpecLive ==
  Init /\ [][Next]_vars /\ WF_vars(workUnitSettles) /\ WF_vars(interJobSleepEnds)

\* ------------------------------------------------------------------------
\* Properties of the job queue
\* ------------------------------------------------------------------------
QueuedIds == [i \in 1..Len(JOB_QUEUE) |-> JOB_QUEUE[i].jobId]

ProcessingIds == {id \in DOMAIN JOB_MAP : JOB_MAP[id].status = "processing"}

\* C1: work units start in exactly the order their jobs were enqueued: the
\* started jobs are a prefix of the enqueued ones (none skipped, none out of
\* order) and the jobs still queued are the rest, in enqueue order.
C1_FifoStartOrder ==
  /\ Len(startLog) <= Len(enqLog)
  /\ startLog = SubSeq(enqLog, 1, Len(startLog))
  /\ QueuedIds = SubSeq(enqLog, Len(startLog) + 1, Len(enqLog))

\* three jobs were started, the third while a fourth was already enqueued
\* behind it during the consumer's loop
C1_Witness ==
  /\ Len(startLog) = 3
  /\ Len(enqLog) = 4
  /\ qpc = "awaitFn"
  /\ Len(finishLog) = 2

\* C2: at most one job record is `processing`, and a work unit is started
\* only after every work unit started before it was recorded done or failed.
C2_SingleProcessing ==
  /\ Cardinality(ProcessingIds) <= 1
  /\ Len(finishLog) <= Len(startLog)
  /\ Len(startLog) <= Len(finishLog) + 1
  /\ finishLog = SubSeq(startLog, 1, Len(finishLog))
  /\ \A id \in ProcessingIds : qpc = "awaitFn" /\ curJob.jobId = id
  /\ \A i \in 1..Len(finishLog) :
       finishLog[i] \in DOMAIN JOB_MAP =>
         JOB_MAP[finishLog[i]].status \in {"done", "failed"}

\* a job is processing while another one, enqueued during the run, waits
C2_Witness ==
  /\ Cardinality(ProcessingIds) = 1
  /\ Len(JOB_QUEUE) >= 1
  /\ Len(finishLog) >= 1

\* ------------------------------------------------------------------------
\* Properties of the mock-bar assembler
\* ------------------------------------------------------------------------
HasWarning == mresult.warning # Null /\ Len(mresult.warning) > 0

Unnumbered(q) == [q EXCEPT !.number = 0]

\* C3: in every result total equals requested unless a warning is set, and a
\* result with fewer questions than the caller asked for carries a non-empty
\* warning (also when synthetic generation was enabled and fell short).
C3_TotalIsRequestedUnlessWarning ==
  mpc = "done" =>
    /\ (mresult.total # mresult.requested => HasWarning)
    /\ (mresult.total < mb.N => HasWarning)

\* C4: the three provenance counts of every result sum to total, the length
\* of the returned question list, whatever the generated records look like.
C4_ProvenanceSum ==
  mpc = "done" =>
    /\ mresult.total = Len(mresult.questions)
    /\ mresult.fromPastBar + mresult.fromPreGen + mresult.aiGenerated = mresult.total

\* a result that mixes the three origins, with generated records that claim
\* to be real and to be pre-generated
C4_Witness ==
  /\ mpc = "done"
  /\ mresult.total = 3
  /\ \E i \in 1..Len(mresult.questions) : mresult.questions[i].origin = "real"
  /\ \E i \in 1..Len(mresult.questions) :
       mresult.questions[i].origin = "ai" /\ mresult.questions[i].isReal
  /\ \E i \in 1..Len(mresult.questions) :
       mresult.questions[i].origin = "ai" /\ mresult.questions[i].source = "Pre-generated"

\* C5: with a real pool of R and a pre-generated pool of P questions and N
\* requested, the result starts with the first min(N, R) questions of the real
\* pool, continues with the first min(N - min(N, R), P) of the pre-generated
\* pool, and everything after them is synthetic; pre-generated questions
\* appear only when the whole real pool is in, synthetic ones only when both
\* pools are in; when the pools hold N or more the result is exactly N
\* questions, counted min(N, R) real and the rest pre-generated, no warning.
C5_FillPriority ==
  mpc = "done" =>
    LET R  == Len(mb.realPool)
        P  == Len(mb.preGenPool)
        N  == mb.N
        a  == Min(N, R)
        b  == Min(N - a, P)
        qs == mresult.questions
    IN /\ Len(qs) >= a + b
       /\ \A i \in 1..a : Unnumbered(qs[i]) = mb.realPool[i]
       /\ \A i \in 1..b : Unnumbered(qs[a + i]) = mb.preGenPool[i]
       /\ \A i \in (a + b + 1)..Len(qs) : qs[i].origin = "ai"
       /\ (b > 0 => a = R)
       /\ (Len(qs) > a + b => a = R /\ b = P)
       /\ (R + P >= N =>
             /\ mresult.total = N
             /\ mresult.fromPastBar = a
             /\ mresult.fromPreGen = N - a
             /\ mresult.aiGenerated = 0
             /\ mresult.warning = Null)

\* both sources enabled, the real pool runs out before N and the
\* pre-generated pool supplies the rest without being used up
C5_Witness ==
  /\ mpc = "done"
  /\ mb.usePastBar /\ mb.usePreGen
  /\ Len(mb.realPool) = 1
  /\ Len(mb.preGenPool) = 2
  /\ mb.N = 2
  /\ mresult.total = 2
  /\ mresult.fromPastBar = 1
  /\ mresult.fromPreGen = 1

\* C6: with synthetic generation disabled and pools holding F < N questions
\* the result has total = F, requested = the caller's N, a non-empty warning,
\* and no provider request was made.
C6_ShortfallClamp ==
  (mpc = "done" /\ ~mb.useAI /\ Len(mb.realPool) + Len(mb.preGenPool) < mb.N) =>
    /\ mresult.total = Len(mb.realPool) + Len(mb.preGenPool)
    /\ mresult.requested = mb.N
    /\ HasWarning
    /\ aiCalls = 0

\* ------------------------------------------------------------------------
\* Properties of the model invoker and of the JSON-guaranteed invoker
\* ------------------------------------------------------------------------
AllOverloaded == \A k \in 1..Len(cc.answers) : cc.answers[k] = "overloaded"

LastAnswer == IF Len(cc.answers) = 0 THEN "none" ELSE cc.answers[Len(cc.answers)]

LastAttempt == IF Len(cj.jlog) = 0 THEN "none" ELSE cj.jlog[Len(cj.jlog)].outcome

\* tiers A, A, B, B with 0, 20 s, 0 and 60 s slept before the request
ExpectedRequests ==
  << [model |-> SONNET, waited |-> 0],
     [model |-> SONNET, waited |-> 20000],
     [model |-> HAIKU,  waited |-> 0],
     [model |-> HAIKU,  waited |-> 60000] >>

\* C7: as long as every answer of an invocation reports overload, its
\* requests are the first ones of (A, 0 ms), (A, 20000 ms), (B, 0 ms),
\* (B, 60000 ms), model and sleep before the request, in that order; the
\* invocation raises the Overloaded error exactly when the fourth request
\* has been answered, and never returns.
C7_RetryExhaustion ==
  AllOverloaded =>
    /\ Len(cc.reqLog) <= 4
    /\ cc.reqLog = SubSeq(ExpectedRequests, 1, Len(cc.reqLog))
    /\ (cc.res.kind = "threw" <=> Len(cc.answers) = 4)
    /\ (cc.res.kind = "threw" => cc.res.val = OverloadedMessage /\ Len(cc.reqLog) = 4)
    /\ cc.res.kind # "returned"

\* callClaude, called directly, has thrown after four overloaded answers
C7_Witness ==
  /\ cj.entry = "callClaude"
  /\ ipc = "threw"
  /\ Len(cc.answers) = 4
  /\ AllOverloaded
  /\ ires.val = OverloadedMessage

\* C8: requests of an invocation are issued one at a time and a further
\* request only after an overloaded answer; a provider error ends the
\* invocation with the provider's message, a success on request k ends it
\* after exactly k requests with the concatenated text; a request to the
\* fallback tier is at least the third, after two requests to the primary
\* tier that were both answered overloaded.
C8_AdvanceOnlyOnOverload ==
  LET na == Len(cc.answers)
      nr == Len(cc.reqLog)
  IN /\ na <= nr /\ nr <= na + 1
     /\ \A k \in 1..(na - 1) : cc.answers[k] = "overloaded"
     /\ ((nr > na \/ ipc = "ccSleep") /\ na > 0 => LastAnswer = "overloaded")
     /\ (LastAnswer = "hard" =>
           /\ cc.res = [kind |-> "threw", val |-> lastResp.errMsg]
           /\ nr = na
           /\ ipc \notin {"ccSleep", "ccFetch"})
     /\ (LastAnswer = "success" =>
           /\ cc.res = [kind |-> "returned", val |-> JoinText(lastResp.content)]
           /\ nr = na
           /\ ipc \notin {"ccSleep", "ccFetch"})
     /\ (cc.res.kind = "returned" => LastAnswer = "success")
     /\ (cc.res.kind = "none" => ipc \in {"idle", "ccSleep", "ccFetch"})
     /\ \A k \in 1..nr :
          cc.reqLog[k].model = HAIKU =>
            /\ k >= 3
            /\ cc.reqLog[1].model = SONNET /\ cc.reqLog[2].model = SONNET
            /\ cc.answers[1] = "overloaded" /\ cc.answers[2] = "overloaded"

\* callClaude, called directly, returns the joined text of a three-block
\* answer to its third request
C8_Witness ==
  /\ cj.entry = "callClaude"
  /\ ipc = "returned"
  /\ Len(cc.reqLog) = 3
  /\ Len(lastResp.content) = 3
  /\ ires.val = "Here: {\"a\":1} ok"

\* C9 as stated: callClaudeJSON never throws.
C9_NeverThrows == cj.entry = "callClaudeJSON" => ipc # "threw"

\* C9 amended: callClaudeJSON throws only the error callClaude raised on the
\* final attempt of the budget; otherwise it ends by returning the value
\* parsed from the text of the attempt just made, or null once every attempt
\* of the budget has been made and the last one gave unparseable text.
C9_ThrowsOnlyFromFinalAttempt ==
  cj.entry = "callClaudeJSON" =>
    /\ (ipc = "threw" =>
          /\ cj.attempt = cj.retries
          /\ LastAttempt = "error"
          /\ cc.res.kind = "threw"
          /\ ires = cc.res)
    /\ (ipc = "returned" =>
          \/ /\ ires.val # Null
             /\ LastAttempt = "parsed"
             /\ JSONParse(ires.val).ok
          \/ /\ ires.val = Null
             /\ LastAttempt = "unparseable"
             /\ cj.attempt = cj.retries
             /\ Len(cj.jlog) = cj.retries)

\* the third of three attempts threw after an unparseable and a failed one
C9_Witness ==
  /\ cj.entry = "callClaudeJSON"
  /\ cj.retries = 3
  /\ ipc = "threw"
  /\ Len(cj.jlog) = 3
  /\ cj.jlog[1].outcome = "unparseable"
  /\ cj.jlog[2].outcome = "error"

\* C10: an error of callClaude reaches the caller of callClaudeJSON only from
\* the final attempt; after an error on an earlier attempt callClaudeJSON
\* sleeps 3 s and then makes the next attempt.
C10_ErrorVisibleOnlyOnFinalAttempt ==
  cj.entry = "callClaudeJSON" =>
    /\ (ipc = "threw" =>
          Len(cj.jlog) = cj.retries /\ cj.jlog[cj.retries].outcome = "error")
    /\ \A k \in 1..Len(cj.jlog) :
         cj.jlog[k].outcome = "error" =>
           IF k < cj.retries
           THEN \/ k = Len(cj.jlog) /\ ipc = "cjSleep3"
                \/ cj.jlog[k].slept = 3000 /\ cj.calls > k
           ELSE ipc = "threw" /\ ires.kind = "threw"

\* errors on the first two attempts, each slept off for 3 s, stay hidden
\* while the third attempt is under way
C10_Witness ==
  /\ cj.entry = "callClaudeJSON"
  /\ cj.retries = 3
  /\ cj.attempt = 3
  /\ ipc = "ccFetch"
  /\ Len(cj.jlog) = 2
  /\ cj.jlog[1] = [outcome |-> "error", slept |-> 3000]
  /\ cj.jlog[2] = [outcome |-> "error", slept |-> 3000]

\* provider requests issued so far by the current callClaudeJSON invocation
TotalRequests == cj.requests + (IF cc.res.kind = "none" THEN Len(cc.reqLog) ELSE 0)

\* C11: callClaudeJSON returns on the first attempt whose text extractJSON
\* parses and calls callClaude no more after it; it makes at most `retries`
\* callClaude calls; after a failed extraction that is not the last attempt
\* it sleeps 2 s before the next call, after the last attempt it returns
\* null without sleeping; it issues at most 4 x retries provider requests.
C11_BoundedAttempts ==
  cj.entry = "callClaudeJSON" =>
    /\ cj.calls <= cj.retries
    /\ Len(cj.jlog) <= cj.calls
    /\ TotalRequests <= 4 * cj.retries
    /\ \A k \in 1..Len(cj.jlog) :
         /\ cj.jlog[k].outcome = "parsed" =>
              /\ k = Len(cj.jlog)
              /\ cj.calls = k
              /\ ipc = "returned"
              /\ ires.val # Null
              /\ ires.val = extractJSON(cc.res.val)
         /\ cj.jlog[k].outcome = "unparseable" =>
              IF k < cj.retries
              THEN \/ k = Len(cj.jlog) /\ ipc = "cjSleep2" /\ cj.calls = k
                   \/ cj.jlog[k].slept = 2000 /\ cj.calls > k
              ELSE /\ cj.jlog[k].slept = 0
                   /\ cj.calls = k
                   /\ ipc = "returned"
                   /\ ires.val = Null

\* the first attempt needed all four requests and gave unparseable text, the
\* 2 s sleep followed, and the second attempt of three parsed and returned
C11_Witness ==
  /\ cj.entry = "callClaudeJSON"
  /\ cj.retries = 3
  /\ ipc = "returned"
  /\ cj.calls = 2
  /\ Len(cj.jlog) = 2
  /\ cj.jlog[1] = [outcome |-> "unparseable", slept |-> 2000]
  /\ cj.jlog[2].outcome = "parsed"
  /\ TotalRequests >= 5

\* ------------------------------------------------------------------------
\* Properties of the pre-generation engine
\* ------------------------------------------------------------------------

\* C12: at most one runGenQueue pass is active at any time, and a trigger
\* call (of either kind) made while GEN.running is true changes neither
\* done, total, errors, startedAt nor any other field of GEN, nor the
\* content cache or its persisted copy, and starts no pass.
C12_SingleRunGuard ==
  /\ [](activePasses <= 1)
  /\ [][(GEN.running /\ triggers' # triggers) =>
          /\ UNCHANGED <<GEN, CONTENT, persisted>>
          /\ UNCHANGED <<gpc, genQueue, genIdx, glog, activePasses>>
          /\ ignored' = ignored + 1]_vars

\* the pass started by the first trigger has finished one topic and is
\* still running after a second trigger was made and returned at once
C12_Witness ==
  /\ GEN.running
  /\ GEN.startedAt = 1
  /\ GEN.done = 1
  /\ triggers = 2
  /\ ignored = 1
  /\ activePasses = 1

\* a pass was started and none is under way
PassOver == gpc = "idle" /\ GEN.startedAt # 0

\* the pass has run to the end of runGenQueue
PassFinished == PassOver /\ ~GEN.running /\ GEN.finishedAt = GEN.startedAt

\* positions of the queue whose generateTopicContent call threw / returned
ThrewAt == {k \in 1..Len(genQueue) :
              \E i \in 1..Len(glog) : glog[i].ev = "threw" /\ glog[i].current = k}

ReturnedAt == {k \in 1..Len(genQueue) :
                 \E i \in 1..Len(glog) : glog[i].ev = "returned" /\ glog[i].current = k}

\* the topic has an entry that this pass wrote
WrittenByThisRun(t) == t \in DOMAIN CONTENT /\ CONTENT[t].run = GEN.startedAt

\* every topic was
\* processed, done = total, and errors names the topics whose generation
\* threw, once each, in queue order
EveryTopicProcessed ==
  /\ GEN.done = GEN.total
  /\ GEN.total = Len(genQueue)
  /\ ThrewAt \cup ReturnedAt = 1..Len(genQueue)
  /\ ThrewAt \cap ReturnedAt = {}
  /\ Len(GEN.errors) = Cardinality(ThrewAt)
  /\ \A k \in ThrewAt : \E i \in 1..Len(GEN.errors) : GEN.errors[i] = genQueue[k].topicName
  /\ \A i, j \in 1..Len(GEN.errors) : i # j => GEN.errors[i] # GEN.errors[j]
  /\ \A k \in 1..Len(genQueue) :
       WrittenByThisRun(genQueue[k].topicName)
         \/ \E i \in 1..Len(GEN.errors) : GEN.errors[i] = genQueue[k].topicName

UnparseableAt == {k \in 1..Len(genQueue) :
                    \E i \in 1..Len(glog) : glog[i].ev = "unparseable" /\ glog[i].current = k}

\* C14: once the structured generation of a topic has yielded no value, the
\* topic's cache entry is the generation_failed sentinel written by this
\* pass, and the pass goes on: a pass is over only by having finished.
C14_SentinelOnStructuredFailure ==
  /\ \A k \in UnparseableAt :
       LET t == genQueue[k].topicName
       IN t \in DOMAIN CONTENT /\ CONTENT[t] = Entry("generation_failed", GEN.startedAt)
  /\ (PassOver => PassFinished)

\* positions of the history that hold a broadcast / a step of kind ev
BroadcastsAt == {i \in 1..Len(glog) : glog[i].ev = "broadcast"}

StepsAt(ev) == {i \in 1..Len(glog) : glog[i].ev = ev}

SettlesAt == StepsAt("returned") \cup StepsAt("threw")

\* C15: within a pass the generateTopicContent calls are made for the queue
\* positions 1, 2, 3, ... in that order; the call for position k+1 is made
\* only after the call for k settled, then the progress event with done = k
\* was broadcast, then the 600 ms sleep ended; the broadcasts carry done
\* values that never decrease, start at 0, grow by one with each topic that
\* completes, in completion order, and end at total when the pass finishes.
C15_InOrderOneAtATime ==
  /\ \A p \in StepsAt("begin") :
       /\ glog[p].current = Cardinality({i \in StepsAt("begin") : i <= p})
       /\ p - 1 \in BroadcastsAt
       /\ glog[p - 1].current = genQueue[glog[p].current].topicName
       /\ glog[p].current > 1 =>
            \E a \in SettlesAt, b \in BroadcastsAt, c \in StepsAt("slept") :
              /\ a < b /\ b < c /\ c < p
              /\ glog[a].current = glog[p].current - 1
              /\ glog[b].done = glog[p].current - 1
              /\ glog[c].current = glog[p].current - 1
  /\ \A a \in SettlesAt :
       /\ glog[a].current = Cardinality({i \in SettlesAt : i <= a})
       /\ \E p \in StepsAt("begin") : p < a /\ glog[p].current = glog[a].current
       /\ a + 1 \in BroadcastsAt
       /\ glog[a + 1].done = glog[a].current
  /\ \A i, j \in BroadcastsAt : i < j => glog[i].done <= glog[j].done
  /\ \A i \in BroadcastsAt : glog[i].done <= glog[i].total
  /\ (GEN.startedAt # 0 => glog[1].ev = "broadcast" /\ glog[1].done = 0)
  /\ (PassFinished =>
        /\ glog[Len(glog)].ev = "broadcast"
        /\ glog[Len(glog)].done = glog[Len(glog)].total
        /\ glog[Len(glog)].finished
        /\ Cardinality(SettlesAt) = Len(genQueue))

\* the third topic of a queue is being generated after the first threw and
\* the second returned
C15_Witness ==
  /\ gpc = "generating"
  /\ genIdx = 3
  /\ GEN.done = 2
  /\ Cardinality(StepsAt("threw")) = 1
  /\ Cardinality(StepsAt("slept")) = 2

C17_InterJobDelay ==
  \A i \in 2..Len(startLog) : delayLog[i] >= 3000

\* C17 amended: a work unit whose job was waiting in the queue when the
\* previous job finished is started after the 3000 ms sleep; one whose job
\* was enqueued after the previous job finished, when the consumer had gone
\* idle, is started at once, with no sleep since that finish.
C17_DelayOnlyForWaitingJobs ==
  /\ Len(delayLog) = Len(startLog)
  /\ Len(finishLog) \in {Len(startLog) - 1, Len(startLog)}
  /\ (Len(startLog) >= 2 /\ Len(finishLog) = Len(startLog) - 1) =>
       IF startLog[Len(startLog)] \in lastWait
       THEN delayLog[Len(startLog)] = 3000
       ELSE delayLog[Len(startLog)] = 0
  /\ (qpc = "sleep" <=> (JOB_RUNNING /\ Len(finishLog) = Len(startLog) /\ Len(JOB_QUEUE) > 0))

\* the second job waited and was started after the sleep; the third was
\* enqueued after the second had finished and was started at once
C17_Witness ==
  /\ Len(startLog) = 3
  /\ Len(finishLog) = 2
  /\ delayLog[2] = 3000
  /\ startLog[3] \notin lastWait
  /\ delayLog[3] = 0

\* C18: a job whose work unit rejected is recorded failed with the error's
\* message and no result; the rejection does not leave the consumer, which
\* is suspended exactly while JOB_RUNNING is set, and goes idle only with an
\* empty queue and every enqueued job finished, in enqueue order: the jobs
\* behind a failed one are all processed.
C18_FailureDoesNotHaltQueue ==
  /\ (/\ Len(finishLog) = Len(startLog)
      /\ curJob # NoJob
      /\ curJob.fn = "rejects"
      /\ curJob.jobId \in DOMAIN JOB_MAP) =>
        JOB_MAP[curJob.jobId].status = "failed"
  /\ \A id \in DOMAIN JOB_MAP :
       JOB_MAP[id].status = "failed" =>
         /\ JOB_MAP[id].error = <<"message", id>>
         /\ JOB_MAP[id].result = Null
  /\ (JOB_RUNNING <=> qpc # "idle")
  /\ (qpc = "idle" => Len(JOB_QUEUE) = 0 /\ finishLog = enqLog)
  /\ finishLog = SubSeq(enqLog, 1, Len(finishLog))

\* the first job failed and the two jobs that waited in the queue behind it
\* have both been processed, each after the inter-job sleep
C18_Witness ==
  /\ Len(finishLog) = 3
  /\ delayLog = <<0, 3000, 3000>>
  /\ 1 \in DOMAIN JOB_MAP
  /\ JOB_MAP[1].status = "failed"
  /\ 3 \in DOMAIN JOB_MAP
  /\ JOB_MAP[3].status = "done"
  /\ qpc = "idle"

\* a step from record a to record b of one job along the lifecycle
LifecycleStep(a, b) ==
  \/ a.status = "pending" /\ b = [a EXCEPT !.status = "processing"]
  \/ /\ a.status = "processing"
     /\ b.status = "done"
     /\ b.error = a.error
  \/ /\ a.status = "processing"
     /\ b.status = "failed"
     /\ b.error # Null
     /\ b.result = a.result

\* C19: a job record is created pending, goes pending -> processing ->
\* done | failed and makes no other move; result is set only in a done
\* record and error only in a failed one; records change only in steps of
\* the consumer (after `await fn()`, after the sleep, or for the new job in
\* the enqueueJob call that starts the idle consumer): an enqueueJob call
\* leaves the records of other jobs as they are, and a status read, which
\* answers with the record's fields, changes none.
C19_JobLifecycle ==
  /\ [](\A id \in DOMAIN JOB_MAP :
          /\ JOB_MAP[id].status \in {"pending", "processing", "done", "failed"}
          /\ (JOB_MAP[id].result # Null => JOB_MAP[id].status = "done")
          /\ (JOB_MAP[id].error # Null => JOB_MAP[id].status = "failed"))
  /\ [][/\ \A id \in (DOMAIN JOB_MAP) \cap (DOMAIN JOB_MAP') :
            JOB_MAP'[id] # JOB_MAP[id] =>
              /\ LifecycleStep(JOB_MAP[id], JOB_MAP'[id])
              /\ qpc \in {"awaitFn", "sleep"}
              /\ nextId' = nextId
              /\ lastRead' = lastRead
        /\ \A id \in (DOMAIN JOB_MAP') \ (DOMAIN JOB_MAP) :
            /\ nextId' = nextId + 1
            /\ id = nextId
            /\ JOB_MAP'[id] \in {PendingJob, [PendingJob EXCEPT !.status = "processing"]}
        /\ lastRead' # lastRead =>
            /\ JOB_MAP' = JOB_MAP
            /\ \/ lastRead' = JobNotFound
               \/ \E id \in DOMAIN JOB_MAP : lastRead' = JobStatus(JOB_MAP[id])]_vars

\* one job done, one failed, one processing and one pending, and a status
\* read that found a record
C19_Witness ==
  /\ DOMAIN JOB_MAP = 1..4
  /\ JOB_MAP[1].status = "done"
  /\ JOB_MAP[2].status = "failed"
  /\ JOB_MAP[3].status = "processing"
  /\ JOB_MAP[4].status = "pending"
  /\ lastRead.code = 200
  /\ lastRead.status = "failed"

Enqueued(id) == \E i \in 1..Len(enqLog) : enqLog[i] = id

Finished(id) == \E i \in 1..Len(finishLog) : finishLog[i] = id

StartsOf(id) == {i \in 1..Len(startLog) : startLog[i] = id}

\* C20: when every work unit settles, every enqueued job is eventually
\* recorded done or failed; its work unit is started at most once at any
\* time and exactly once by the time the job has finished.
C20_EveryJobCompletes ==
  /\ \A id \in 1..MaxJobs : Enqueued(id) ~> Finished(id)
  /\ [](\A id \in 1..MaxJobs :
          /\ Cardinality(StartsOf(id)) <= 1
          /\ Finished(id) =>
               /\ Cardinality(StartsOf(id)) = 1
               /\ id \in DOMAIN JOB_MAP => JOB_MAP[id].status \in {"done", "failed"})

\* the second job was enqueued when the consumer had finished its last job
\* and stopped, and has finished as well
C20_Witness ==
  /\ finishLog = <<1, 2>>
  /\ delayLog = <<0, 0>>
  /\ Cardinality(StartsOf(2)) = 1
  /\ qpc = "idle"

\* ------------------------------------------------------------------------
\* Expiry of job records
\* ------------------------------------------------------------------------

\* the jobs enqueueJob has created so far
CreatedIds == 1..(nextId - 1)

\* C21: a record leaves JOB_MAP only in a step of the expiry timer that was
\* armed when its job was recorded done or failed, and that step is enabled
\* whatever the status route has answered; every job that is still pending
\* or processing has its record; a timer is armed exactly for the finished
\* jobs whose record is still there; and a lookup of an id that has no
\* record, removed or never created, answers 404 not found.
C21_RemovedOnlyByExpiry ==
  /\ [](/\ \A id \in CreatedIds :
             ~Finished(id) => /\ id \in DOMAIN JOB_MAP
                              /\ JOB_MAP[id].status \in {"pending", "processing"}
        /\ DOMAIN JOB_MAP \subseteq CreatedIds
        /\ timers = {id \in DOMAIN JOB_MAP : Finished(id)}
        /\ \A id \in timers : JOB_MAP[id].status \in {"done", "failed"}
        /\ (timers # {} => ENABLED expireJob)
        /\ JOB_EXPIRY_MS = 1800000)
  /\ [][/\ \A id \in DOMAIN JOB_MAP :
             id \notin DOMAIN JOB_MAP' =>
               /\ id \in timers
               /\ id \notin timers'
               /\ JOB_MAP[id].status \in {"done", "failed"}
               /\ lastRead' = lastRead
        /\ \A jobId \in 1..MaxJobs :
             (lastRead' # lastRead /\ getJobStatus(jobId) /\ jobId \notin DOMAIN JOB_MAP) =>
               lastRead' = JobNotFound]_vars

\* the record of the first job has expired while the second job is still
\* being processed; no status read has been answered with a record since
C21_Witness ==
  /\ Finished(1)
  /\ 1 \notin DOMAIN JOB_MAP
  /\ 2 \in DOMAIN JOB_MAP
  /\ JOB_MAP[2].status = "processing"
  /\ lastRead = JobNotFound
  /\ timers = {}

\* ------------------------------------------------------------------------
\* Properties of the JSON extractor
\* ------------------------------------------------------------------------

\* the text holds neither a fenced block nor an opening brace or bracket
NothingToExtract(raw) ==
  /\ ~FenceMatch(raw).found
  /\ IndexOfFrom(raw, "{", 1) = 0
  /\ IndexOfFrom(raw, "[", 1) = 0

\* C22: extractJSON is total: whatever its argument (a string, the empty
\* string, a value that is not a string) the call ends by returning, never
\* by throwing, and returns the parse of one of its candidates or null; a
\* text that is not valid JSON and holds no fenced block, no { and no [
\* gives null.
C22_ExtractorTotal ==
  xpc = "done" =>
    /\ ~xres.threw
    /\ \/ xres = NoExtract
       \/ /\ xres.strategy \in 1..6
          /\ Candidates(xin.text)[xres.strategy].found
          /\ JSONParse(Candidates(xin.text)[xres.strategy].text).ok
          /\ xres.val = JSONParse(Candidates(xin.text)[xres.strategy].text).val
    /\ (xin.kind # "string" \/ xin.text = "") => xres = NoExtract
    /\ (/\ xin.kind = "string"
        /\ ~JSONParse(xin.text).ok
        /\ NothingToExtract(xin.text)) => xres = NoExtract
    /\ xin.kind = "string" => xres.val = extractJSON(xin.text)

\* the refusal sentence went through every strategy and gave null
C22_Witness ==
  /\ xpc = "done"
  /\ xin = [kind |-> "string", text |-> "I cannot help with that."]
  /\ ~JSONParse(xin.text).ok
  /\ NothingToExtract(xin.text)
  /\ xres = NoExtract

\* C23: for a string that is valid JSON (object, array or scalar literal)
\* extractJSON returns what JSON.parse gives for that string, and returns it
\* from the first strategy.
C23_ValidJsonByFirstStrategy ==
  (xpc = "done" /\ xin.kind = "string" /\ JSONParse(xin.text).ok) =>
    /\ ~xres.threw
    /\ xres.val = JSONParse(xin.text).val
    /\ xres.strategy = 1

\* the literal null, valid JSON, was returned by the first strategy
C23_Witness ==
  /\ xpc = "done"
  /\ xin = [kind |-> "string", text |-> "null"]
  /\ JSONParse(xin.text).ok
  /\ xres = [threw |-> FALSE, val |-> Null, strategy |-> 1]

\* ------------------------------------------------------------------------
\* Subscribers of the progress events
\* ------------------------------------------------------------------------

\* the last message of a history that was broadcast
LastBroadcast(log) ==
  log[CHOOSE i \in 1..Len(log) :
        /\ log[i].ev = "broadcast"
        /\ \A j \in (i + 1)..Len(log) : log[j].ev # "broadcast"]

\* the state of the generation run
RunState == <<GEN, CONTENT, persisted, gpc, genQueue, genIdx, activePasses, glog>>

\* C24: when the engine publishes progress, every subscriber whose write
\* works has received the last event published, wherever it stands among
\* subscribers whose write throws, and a subscriber whose write throws has
\* received nothing; a step in which a subscriber arrives or leaves changes
\* nothing of the run (done, total, errors, running and the rest); and with
\* such subscribers the pass still processes every topic and finishes.
C24_SubscriberFailureIsolated ==
  /\ [][/\ glog' # glog =>
             /\ clients' = clients
             /\ \A i \in 1..Len(clients) :
                  IF clients[i].mode = "works"
                  THEN inbox'[clients[i].id] = LastBroadcast(glog')
                  ELSE inbox'[clients[i].id] = NoMessage
        /\ clients' # clients => RunState' = RunState]_vars
  /\ [](/\ \A i \in 1..Len(clients) :
             clients[i].mode = "throws" => inbox[clients[i].id] = NoMessage
        /\ GEN.done = Cardinality(SettlesAt)
        /\ Len(GEN.errors) = Cardinality(StepsAt("threw"))
        /\ (GEN.running <=> gpc # "idle")
        /\ (PassOver => PassFinished /\ EveryTopicProcessed))

\* a pass has finished while the first subscriber's write threw and the
\* second subscriber, behind it, has the final progress event
C24_Witness ==
  /\ PassFinished
  /\ Len(clients) = 2
  /\ clients[1].mode = "throws"
  /\ clients[2].mode = "works"
  /\ inbox[clients[1].id] = NoMessage
  /\ inbox[clients[2].id] = Broadcast(GEN)
  /\ inbox[clients[2].id].finished

\* ------------------------------------------------------------------------
\* Termination of the model invoker
\* ------------------------------------------------------------------------

\* a call of callClaude or callClaudeJSON is under way
InvocationUnderWay == ipc \in {"ccSleep", "ccFetch", "cjSleep2", "cjSleep3"}

\* the call has returned or thrown
InvocationOver == ipc \in {"returned", "threw"}

EveryDocEligible ==
  \A k \in pin.docs :
    IdMatch(pin.pastBarIds, k) =>
      \A i \in 1..DocQuestions(k) : Includes(pout.realPool, <<k, i>>)

\* every question of every cached subject whose topic passes the topic
\* filter is in the pre-generated pool
EveryCachedSubjectEligible ==
  \A s \in 1..Len(CachedContent) :
    \A t \in 1..Len(CachedContent[s].topics) :
      LET topic == CachedContent[s].topics[t]
      IN (Len(pin.topics) = 0 \/ Includes(pin.topics, topic.name)) =>
           \A i \in 1..topic.nq :
             Includes(pout.preGenPool, <<CachedContent[s].subj, topic.name, i>>)

\* the subject filter is absent or names the sentinel "all"
AbsentOrAll(subjects) == ~subjects.given \/ Includes(subjects.list, "all")

\* C26 as stated: with a subject filter that is absent, an empty list, or
\* contains "all", every document that passes the id filter is in the real
\* pool and every cached subject is in the pre-generated pool.
C26_NoSubjectRestriction ==
  (ppc = "done" /\ (AbsentOrAll(pin.subjects) \/ Len(pin.subjects.list) = 0)) =>
    /\ pin.usePastBar => EveryDocEligible
    /\ pin.usePreGen => EveryCachedSubjectEligible

\* what the code does keep: the same for a filter that is absent or
\* contains "all"
AbsentOrAllUnrestricted ==
  (ppc = "done" /\ AbsentOrAll(pin.subjects)) =>
    /\ pin.usePastBar => EveryDocEligible
    /\ pin.usePreGen => EveryCachedSubjectEligible

\* ------------------------------------------------------------------------
\* More properties of generateMockBar
\* ------------------------------------------------------------------------

\* C27: a call whose pools supply the requested count (gap <= 0) makes no
\* provider request, neither before it returns nor by being suspended on
\* one; a call with count 0 returns an empty question list with total 0,
\* whatever the pools hold and whatever sources are enabled.
C27_NoProviderCallWithoutGap ==
  /\ (mpc # "idle" /\ mb.gap <= 0) =>
       /\ mpc = "done"
       /\ aiCalls = 0
       /\ mb.aiList = <<>>
       /\ mresult.aiGenerated = 0
       /\ mresult.total = mb.N
  /\ (mpc = "awaitAI" => mb.gap > 0 /\ mb.useAI)
  /\ (mpc # "idle" /\ mb.N = 0) =>
       /\ mpc = "done"
       /\ aiCalls = 0
       /\ mresult.questions = <<>>
       /\ mresult.total = 0

\* a call with count 0 has returned with nothing while both pools held
\* questions and synthetic generation was enabled
C27_Witness ==
  /\ mpc = "done"
  /\ mb.N = 0
  /\ mb.useAI
  /\ Len(mb.realPool) > 0
  /\ Len(mb.preGenPool) > 0
  /\ mresult.total = 0
  /\ aiCalls = 0

\* ------------------------------------------------------------------------
\* Replacement of cached content
\* ------------------------------------------------------------------------

\* the statuses of a complete entry
EntryStatuses == {"content", "no_materials", "generation_failed"}

\* in this step the entry of topic t stays as it was or becomes a complete
\* entry written by the pass that is running
ReplacedAtomically(t) ==
  /\ t \in DOMAIN CONTENT'
  /\ \/ CONTENT'[t] = CONTENT[t]
     \/ /\ CONTENT'[t].run = GEN'.startedAt
        /\ CONTENT'[t].status \in EntryStatuses

\* C28 as stated: in every step of a pre-generation pass, full or for one
\* subject, a topic that has an entry keeps it or gets the complete entry of
\* the running pass, so that between any two steps a reader finds the value
\* from before the pass or the value of the pass, never a missing entry.
C28_AtomicReplacement ==
  [][\A t \in DOMAIN CONTENT : ReplacedAtomically(t)]_vars

\* what the code does keep: every step but the start of a pass for one
\* subject replaces atomically
AtomicButForSubjectTrigger ==
  [][(\A subjKey \in VALID_SUBJECTS : ~triggerPreGenerationForSubject(subjKey)) =>
       \A t \in DOMAIN CONTENT : ReplacedAtomically(t)]_vars

\* ------------------------------------------------------------------------
\* The progress counters of a pass
\* ------------------------------------------------------------------------

\* the broadcasts of the history that report the pass as finished
FinalBroadcastsAt == {i \in BroadcastsAt : glog[i].finished}

\* C29: always 0 <= done <= total; done changes only by being reset to 0 at
\* the start of a pass or by growing by one when a topic settles, and it
\* grows by one with every topic that settles, whether that stored content,
\* stored a sentinel or threw; while a pass runs finishedAt is null; when
\* the pass is over running is false, done = total, current is empty,
\* finishedAt is set, and exactly one final progress event was published,
\* as the last event.
C29_ProgressCounters ==
  /\ [](/\ 0 <= GEN.done
        /\ GEN.done <= GEN.total
        /\ GEN.done = Cardinality(SettlesAt)
        /\ (GEN.running => GEN.finishedAt = 0 /\ FinalBroadcastsAt = {})
        /\ (GEN.running <=> gpc # "idle")
        /\ (PassOver =>
              /\ ~GEN.running
              /\ GEN.done = GEN.total
              /\ GEN.total = Len(genQueue)
              /\ GEN.current = 0
              /\ GEN.finishedAt # 0
              /\ FinalBroadcastsAt = {Len(glog)}))
  /\ [][/\ (gpc = "generating" /\ gpc' # "generating") => GEN'.done = GEN.done + 1
        /\ GEN'.done # GEN.done =>
             \/ gpc = "generating" /\ GEN'.done = GEN.done + 1
             \/ gpc = "idle" /\ gpc' # "idle" /\ GEN'.done = 0]_vars

\* a pass over three topics is over: one topic threw, one stored content
\* and one stored the no_materials sentinel
C29_Witness ==
  /\ PassOver
  /\ GEN.done = 3
  /\ GEN.total = 3
  /\ Len(GEN.errors) = 1
  /\ \E t \in DOMAIN CONTENT :
       CONTENT[t].status = "content" /\ CONTENT[t].run = GEN.startedAt
  /\ \E t \in DOMAIN CONTENT :
       CONTENT[t].status = "no_materials" /\ CONTENT[t].run = GEN.startedAt

\* the questions the two pools gave, before any synthetic one
Pooled == FillChosen(mb.realPool, mb.preGenPool, mb.N)

\* C30: a call with a gap > 0 and synthetic generation enabled makes exactly
\* one generateAIQuestions call and asks it for exactly gap questions; at
\* most gap of the questions that come back are appended, behind the pooled
\* ones, so total is at most N; when fewer than gap come back (or the call
\* fails) total is below N and generateMockBar still returns a result.
C30_SyntheticFillsGap ==
  /\ mpc # "threw"
  /\ (mpc # "idle" /\ mb.useAI /\ mb.gap > 0) =>
       /\ aiCalls = 1
       /\ mb.gap = mb.N - Len(Pooled)
       /\ mb.aiNeeded = mb.gap
       /\ mpc = "awaitAI" => mb.chosen = Pooled
       /\ mpc = "done" =>
            /\ Len(mb.aiList) <= mb.gap
            /\ mb.chosen = Pooled \o mb.aiList
            /\ mresult.questions = Numbered(Pooled \o mb.aiList)
            /\ mresult.total = Len(Pooled) + Len(mb.aiList)
            /\ mresult.total <= mb.N
            /\ mresult.requested = mb.N
            /\ (Len(mb.aiList) < mb.gap => mresult.total < mb.N)
  /\ (mpc # "idle" /\ ~(mb.useAI /\ mb.gap > 0)) => aiCalls = 0

\* two questions were missing, the provider returned one: it stands behind
\* the pooled question and the result has 2 of the 3 requested
C30_Witness ==
  /\ mpc = "done"
  /\ mb.N = 3
  /\ mb.gap = 2
  /\ Len(Pooled) = 1
  /\ Len(mb.aiList) = 1
  /\ mresult.total = 2
  /\ mresult.questions[2].origin = "ai"
  /\ aiCalls = 1

\* ------------------------------------------------------------------------
\* Failure of the synthetic generation, numbering and provenance
\* ------------------------------------------------------------------------

\* the synthetic generation was awaited and gave nothing: it threw, or it
\* returned an empty list
SyntheticGaveNothing ==
  mb.aiEnd = "threw" \/ (mb.aiEnd = "returned" /\ mb.aiList = <<>>)

\* C31: when generateAIQuestions throws or yields no question,
\* generateMockBar still returns (nothing is thrown to its caller) and the
\* returned list is exactly the questions the real and the pre-generated
\* pool gave, in the order they were filled in.
C31_SyntheticFailureReturnsPooled ==
  /\ (mb.aiEnd # "none" => mpc = "done")
  /\ (mpc = "done" /\ SyntheticGaveNothing) =>
       /\ mb.chosen = Pooled
       /\ mresult.questions = Numbered(Pooled)
       /\ mresult.total = Len(Pooled)
       /\ mresult.total < mb.N
       /\ mresult.aiGenerated = 0

\* the provider call threw while two questions were missing: the call
\* returned the real question followed by the pre-generated one
C31_Witness ==
  /\ mpc = "done"
  /\ mb.aiEnd = "threw"
  /\ mb.N = 4
  /\ mb.gap = 2
  /\ mresult.total = 2
  /\ mresult.questions[1].origin = "real"
  /\ mresult.questions[2].origin = "pregen"

\* C32: the returned list holds at most `requested` questions (the count,
\* clamped to the pool size when synthetic generation is disabled), total is
\* its length, and the question at position i carries number i: the numbers
\* are exactly 1..total, increasing in list order, without gap or duplicate.
C32_TruncatedAndNumbered ==
  mpc = "done" =>
    LET qs == mresult.questions
    IN /\ Len(qs) <= mresult.requested
       /\ mresult.requested <= mb.N
       /\ mresult.total = Len(qs)
       /\ \A i \in 1..Len(qs) : qs[i].number = i
       /\ {qs[i].number : i \in 1..Len(qs)} = 1..mresult.total
       /\ \A i, j \in 1..Len(qs) : i < j => qs[i].number < qs[j].number

\* a result of four questions from the three origins, the synthetic one
\* last with number 4
C32_Witness ==
  /\ mpc = "done"
  /\ mresult.total = 4
  /\ mresult.questions[1].origin = "real"
  /\ mresult.questions[3].origin = "pregen"
  /\ mresult.questions[4].origin = "ai"
  /\ mresult.questions[4].number = 4

\* a clamped result: three were asked for, the pools held two, synthetic
\* generation was disabled
C32_WitnessClamped ==
  /\ mpc = "done"
  /\ mb.N = 3
  /\ ~mb.useAI
  /\ mresult.requested = 2
  /\ mresult.total = 2
  /\ mresult.questions[2].number = 2

\* whether a question is of the type the difficulty asks for; the code knows
\* two types, situational and everything else
MatchesDifficulty(q, difficulty) ==
  IF difficulty = "situational" THEN q.type = "situational"
  ELSE q.type # "situational"

\* C33: for the difficulties situational and conceptual the pre-generated
\* pool after the preference is a permutation of the shuffled pool (same
\* length, same questions), no question of the other type stands before a
\* question of the preferred type, and two questions of the same part keep
\* the order the shuffle gave them; for balanced the pool is the shuffled
\* pool itself.
C33_DifficultyIsStablePartition ==
  mpc # "idle" =>
    LET s == mb.shuffled
        p == mb.preGenPool
        n == Len(s)
        d == mb.difficulty
        Pos(q) == CHOOSE i \in 1..n : s[i] = q
    IN IF d = "balanced" THEN p = s
       ELSE /\ Len(p) = n
            /\ {p[i] : i \in 1..n} = {s[i] : i \in 1..n}
            /\ \A i, j \in 1..n :
                 i < j =>
                   /\ (MatchesDifficulty(p[j], d) => MatchesDifficulty(p[i], d))
                   /\ (MatchesDifficulty(p[i], d) = MatchesDifficulty(p[j], d)
                         => Pos(p[i]) < Pos(p[j]))

\* the shuffle put the situational question between the two conceptual ones
\* and the conceptual preference moved it to the end; the conceptual ones
\* kept their order
C33_Witness ==
  /\ mpc # "idle"
  /\ mb.difficulty = "conceptual"
  /\ Len(mb.shuffled) = 3
  /\ mb.shuffled[1].k = 3 /\ mb.shuffled[2].k = 2 /\ mb.shuffled[3].k = 1
  /\ mb.preGenPool[1].k = 3 /\ mb.preGenPool[2].k = 1 /\ mb.preGenPool[3].k = 2

\* the strategy found a text and JSON.parse accepts it
Parses(m) == m.found /\ JSONParse(m.text).ok

\* the strategies of extractJSON one by one, in the order of the function
\* body: whole string, fenced block, greedy {...}, greedy [...], slice from
\* the first opener to the last closer, textual repair
StrategyTexts(raw) ==
  [ whole  |-> [found |-> TRUE, text |-> raw],
    fence  |-> FenceMatch(raw),
    object |-> GreedyMatch(raw, "{", "}"),
    array  |-> GreedyMatch(raw, "[", "]"),
    slice  |-> SliceMatch(raw),
    repair |-> GreedyMatch(Cleaned(raw), "{", "}") ]

\* C34: extractJSON tries whole-string parse, fenced block, greedy {...}
\* span, greedy [...] span, first-opener-to-last-closer slice and textual
\* repair in this order and returns the parse of the first one that parses:
\* the result comes from strategy k only if none of the strategies before k
\* parses; a preamble, a fenced json block holding {"a":1} and a trailing
\* remark give the object {"a":1}.
C34_FirstParsingStrategyWins ==
  (xpc = "done" /\ xin.kind = "string" /\ xin.text # "") =>
    LET t == StrategyTexts(xin.text)
        expected ==
          IF Parses(t.whole) THEN <<1, t.whole>>
          ELSE IF Parses(t.fence) THEN <<2, t.fence>>
          ELSE IF Parses(t.object) THEN <<3, t.object>>
          ELSE IF Parses(t.array) THEN <<4, t.array>>
          ELSE IF Parses(t.slice) THEN <<5, t.slice>>
          ELSE IF Parses(t.repair) THEN <<6, t.repair>>
          ELSE <<0, NoMatch>>
    IN /\ ~xres.threw
       /\ xres.strategy = expected[1]
       /\ xres.val = (IF expected[1] = 0 THEN Null ELSE JSONParse(expected[2].text).val)
       /\ (xin.text = "Ok:\n^^^json\n{\"a\":1}\n^^^\nBye"
             => xres.val = "{\"a\":1}" /\ xres.strategy = 2)

\* the fenced block gave [1] although the greedy {...} span of the same text
\* parses too
C34_Witness ==
  /\ xpc = "done"
  /\ xin = [kind |-> "string", text |-> "^^^[1]^^^ or {}"]
  /\ ~JSONParse(xin.text).ok
  /\ Parses(GreedyMatch(xin.text, "{", "}"))
  /\ xres = [threw |-> FALSE, val |-> "[1]", strategy |-> 2]

\* the prose-wrapped fenced block gave the object of the block
C34_WitnessFence ==
  /\ xpc = "done"
  /\ xin.text = "Ok:\n^^^json\n{\"a\":1}\n^^^\nBye"
  /\ xres = [threw |-> FALSE, val |-> "{\"a\":1}", strategy |-> 2]

\* ------------------------------------------------------------------------
\* What callClaudeJSON sends on each attempt
\* ------------------------------------------------------------------------

\* text t ends with text e
EndsWith(t, e) == Len(t) >= Len(e) /\ SubSeq(t, Len(t) - Len(e) + 1, Len(t)) = e

\* text t starts with text b
StartsWith(t, b) == Len(t) >= Len(b) /\ SubSeq(t, 1, Len(b)) = b

\* the final turn sent on attempt k is the caller's final turn with its text
\* altered as the attempt requires
FinalTurnAsRequired(k) ==
  LET orig == cj.messages[Len(cj.messages)]
      out  == cj.sent[k][Len(cj.sent[k])]
  IN /\ out.role = orig.role
     /\ StartsWith(out.content, orig.content)
     /\ k = 1 =>
          out.content = (IF orig.role = "user" /\ ~alreadyHasInstruction(orig)
                         THEN orig.content \o JSON_FORMAT_REMINDER
                         ELSE orig.content)
     /\ k > 1 => EndsWith(out.content, CRITICAL_DIRECTIVE)

\* the turns before the final one are sent on attempt k as the caller gave them
EarlierTurnsPassedThrough(k) ==
  /\ Len(cj.sent[k]) = Len(cj.messages)
  /\ \A i \in 1..(Len(cj.messages) - 1) : cj.sent[k][i] = cj.messages[i]

FinalTurnOnEveryAttempt ==
  cj.entry = "callClaudeJSON" =>
    /\ Len(cj.sent) = cj.calls
    /\ cj.calls = cj.attempt
    /\ \A k \in 1..Len(cj.sent) :
         /\ FinalTurnAsRequired(k)
         /\ k = 1 => EarlierTurnsPassedThrough(k)
         /\ k > 1 => Len(cj.sent[k]) = 1

\* ------------------------------------------------------------------------
\* More properties of the job queue
\* ------------------------------------------------------------------------

\* C36: whenever control is back at the event loop, a non-empty JOB_QUEUE
\* implies that the consumer is active: JOB_RUNNING is true and processQueue
\* is suspended in its loop; the guard is true exactly while processQueue is
\* suspended, so no enqueue can fall between the loop's last test and the
\* clearing of the guard.
C36_NoStrandedJobs ==
  /\ (Len(JOB_QUEUE) > 0 => JOB_RUNNING)
  /\ (JOB_RUNNING <=> qpc \in {"awaitFn", "sleep"})
  /\ (qpc = "idle" => JOB_QUEUE = <<>>)
  /\ \A i \in 1..Len(JOB_QUEUE) :
       /\ JOB_QUEUE[i].jobId \in DOMAIN JOB_MAP
       /\ JOB_MAP[JOB_QUEUE[i].jobId].status = "pending"

\* the consumer had left its loop after job 1; the enqueue of job 2 started
\* it again at once, and job 3 waits behind it with the guard set
C36_Witness ==
  /\ finishLog = <<1>>
  /\ startLog = <<1, 2>>
  /\ delayLog = <<0, 0>>
  /\ Len(JOB_QUEUE) = 1
  /\ JOB_QUEUE[1].jobId = 3
  /\ JOB_RUNNING
  /\ qpc = "awaitFn"

\* ------------------------------------------------------------------------
\* Provenance counts of the mock-bar result
\* ------------------------------------------------------------------------

\* number of returned questions that came from the given origin
FromOrigin(o) ==
  Cardinality({i \in 1..Len(mresult.questions) : mresult.questions[i].origin = o})

\* C37: in every result fromPastBar is the number of returned questions
\* taken from the real pool, fromPreGen the number taken from the
\* pre-generated pool and aiGenerated the number supplied by synthetic
\* generation, whatever isReal and source the synthetic records carry.
C37_ProvenanceReflectsOrigin ==
  mpc = "done" =>
    /\ mresult.fromPastBar = FromOrigin("real")
    /\ mresult.fromPreGen = FromOrigin("pregen")
    /\ mresult.aiGenerated = FromOrigin("ai")

\* every synthetic record of the result carries the fields the prompt asks for
SyntheticRecordsCompliant ==
  \A i \in 1..Len(mresult.questions) :
    mresult.questions[i].origin = "ai" =>
      /\ ~mresult.questions[i].isReal
      /\ mresult.questions[i].source # "Pre-generated"

\* what the code does keep: the counts follow the origin when the synthetic
\* records are compliant, and pooled questions are always counted right, so
\* a miscount only ever moves synthetic questions into the other two counts
ProvenanceTrueForCompliantRecords ==
  mpc = "done" =>
    /\ SyntheticRecordsCompliant =>
         /\ mresult.fromPastBar = FromOrigin("real")
         /\ mresult.fromPreGen = FromOrigin("pregen")
         /\ mresult.aiGenerated = FromOrigin("ai")
    /\ mresult.fromPastBar >= FromOrigin("real")
    /\ mresult.fromPreGen >= FromOrigin("pregen")
    /\ mresult.aiGenerated <= FromOrigin("ai")

\* ------------------------------------------------------------------------
\* Triggers that arrive during a run
\* ------------------------------------------------------------------------

\* the topics of the syllabus under the subject
TopicsUnder(subjKey) == {t \in 1..(MaxTopics + 1) : SubjectOf(t) = subjKey}

\* C38: a trigger that arrives while a run is active is discarded and not
\* remembered: the call changes nothing of the engine, a run starts only in
\* the step of a trigger call made while no run is active (never in the
\* step that ends a run, never later by itself), and the queue of the
\* active run is not extended; so when the run during which a subject's
\* regeneration was requested is over and no new trigger has come, every
\* cached topic of that subject outside the run's queue still has the
\* content of an earlier run.
C38_TriggerDuringRunDiscarded ==
  /\ [][/\ (GEN.running /\ triggers' # triggers) =>
             /\ UNCHANGED <<GEN, CONTENT, persisted, gpc, genQueue, genIdx, glog>>
             /\ lastDiscard'.run = GEN.startedAt
        /\ (GEN'.startedAt # GEN.startedAt \/ genQueue' # genQueue) =>
             /\ ~GEN.running
             /\ triggers' = triggers + 1
             /\ GEN'.startedAt = triggers'
             /\ UNCHANGED lastDiscard
        /\ (GEN.running /\ ~GEN'.running) =>
             /\ gpc' = "idle"
             /\ UNCHANGED <<genQueue, triggers>>]_vars
  /\ [](GEN.running <=> gpc # "idle")
  /\ []((lastDiscard.subject \in VALID_SUBJECTS /\ lastDiscard.run = GEN.startedAt) =>
          \A t \in TopicsUnder(lastDiscard.subject) \cap DOMAIN CONTENT :
            (\A i \in 1..Len(genQueue) : genQueue[i].topicName # t) =>
              CONTENT[t].run < GEN.startedAt)

\* the run for civil started by the second trigger is over; the third
\* trigger asked for labor during that run and was discarded: no run is
\* active, civil has the content of run 2 and labor still that of run 1
C38_Witness ==
  /\ ~GEN.running
  /\ gpc = "idle"
  /\ GEN.startedAt = 2
  /\ GEN.finishedAt = 2
  /\ triggers = 3
  /\ lastDiscard = [run |-> 2, subject |-> "labor"]
  /\ \A i \in 1..Len(genQueue) : genQueue[i].subjKey = "civil"
  /\ \E t \in TopicsUnder("labor") \cap DOMAIN CONTENT : CONTENT[t].run = 1
  /\ \E t \in TopicsUnder("civil") \cap DOMAIN CONTENT : CONTENT[t].run = 2

\* ------------------------------------------------------------------------
\* The job queue next to the engine
\* ------------------------------------------------------------------------

\* the jobs whose record says processing
ProcessingJobs == {id \in DOMAIN JOB_MAP : JOB_MAP[id].status = "processing"}

\* C39: the guard of the job queue and the guard of the engine do not know
\* each other.  Within a component work is serialized: at most one job is
\* processing and at most one run is active.  Across them it is not: a run
\* starts without any change to the queue and goes on while jobs start and
\* finish, a job starts without any change to the engine, and the consumer
\* takes its next job whether or not a run is active (a state with a job
\* processing and GEN.running true is reached: C39_Witness).
C39_GuardsIndependent ==
  /\ [](Cardinality(ProcessingJobs) <= 1)
  /\ [](activePasses <= 1)
  /\ [](qpc = "sleep" => ENABLED interJobSleepEnds)
  /\ [](gpc = "sleeping" => ENABLED genSleepEnds)
  /\ [][/\ (GEN'.startedAt # GEN.startedAt) =>
             UNCHANGED <<JOB_MAP, JOB_QUEUE, JOB_RUNNING, qpc, startLog, finishLog>>
        /\ (startLog' # startLog) => UNCHANGED <<GEN, gpc, genQueue, genIdx, CONTENT>>
        /\ (finishLog' # finishLog) => UNCHANGED <<GEN, gpc, genQueue, genIdx, CONTENT>>]_vars

\* job 1, a reference upload, started the run and is done; job 2 was taken
\* after the 3 s gap and is processing while that run is still active,
\* waiting for the provider's answer for its topic
C39_Witness ==
  /\ gpc = "generating"
  /\ genQueue[genIdx].subjKey \in refSubjects
  /\ startLog = <<1, 2>>
  /\ finishLog = <<1>>
  /\ delayLog = <<0, 3000>>
  /\ JOB_MAP[1].status = "done"
  /\ JOB_MAP[2].status = "processing"
  /\ JOB_RUNNING
  /\ GEN.running
  /\ GEN.startedAt = 1
  /\ activePasses = 1

\* the set of the elements of a sequence
RangeOf(q) == {q[i] : i \in 1..Len(q)}

\* C40: a call of enqueueJob made while the consumer is idle returns with
\* the new job marked processing and its work unit started; a call made
\* while the consumer is active (in a work unit or in its 3 s gap) returns
\* with the job pending at the tail of the queue, and a job stays pending
\* and unstarted until every job enqueued before it has finished.
C40_PendingOnlyWhenBusy ==
  /\ [][(enqLog' # enqLog) =>
          LET id == nextId
          IN /\ enqLog' = Append(enqLog, id)
             /\ id \in DOMAIN JOB_MAP'
             /\ IF JOB_RUNNING
                THEN /\ JOB_MAP'[id].status = "pending"
                     /\ startLog' = startLog
                     /\ JOB_QUEUE' = Append(JOB_QUEUE, JOB_QUEUE'[Len(JOB_QUEUE')])
                     /\ JOB_QUEUE'[Len(JOB_QUEUE')].jobId = id
                     /\ UNCHANGED <<JOB_RUNNING, qpc, curJob>>
                ELSE /\ JOB_MAP'[id].status = "processing"
                     /\ startLog' = Append(startLog, id)
                     /\ JOB_RUNNING'
                     /\ qpc' = "awaitFn"
                     /\ curJob'.jobId = id
                     /\ JOB_QUEUE' = <<>>]_vars
  /\ [](\A id \in DOMAIN JOB_MAP :
          JOB_MAP[id].status = "pending" <=> id \notin RangeOf(startLog))
  /\ [](\A id \in RangeOf(startLog) :
          \A ahead \in RangeOf(enqLog) :
            ahead < id => ahead \in RangeOf(finishLog))
  /\ [](\A id \in DOMAIN JOB_MAP :
          (JOB_MAP[id].status = "pending") =>
            /\ JOB_RUNNING
            /\ \/ qpc = "sleep"
               \/ \E ahead \in RangeOf(enqLog) :
                    ahead < id /\ ahead \notin RangeOf(finishLog))

\* job 1 was enqueued while the consumer was idle and started at once; job
\* 2 came during job 1, job 3 during the gap after it: both were pending on
\* return, job 2 has been started since and job 3 is still pending behind it
C40_Witness ==
  /\ enqLog = <<1, 2, 3>>
  /\ startLog = <<1, 2>>
  /\ delayLog = <<0, 3000>>
  /\ finishLog = <<1>>
  /\ lastWait = {2}
  /\ JOB_MAP[2].status = "processing"
  /\ JOB_MAP[3].status = "pending"

====
